---- MODULE Spec2Model ----
(***************************************************************************)
(* Receipt-to-inventory parsing pipeline of                               *)
(* src/src/lib/i18n/contentTranslation.ts.                                *)
(*                                                                         *)
(* A JavaScript string is a sequence of one-character strings, so that    *)
(* the regular expressions of the source are operators over sequences.    *)
(* Positions are 1-based here and 0-based in the source.                   *)
(***************************************************************************)
EXTENDS Integers, Sequences, FiniteSets, TLC

VARIABLES
    line,          \* LineSpec: the receipt line under construction
    item,          \* LineSpec: deriveItemFromLine(line), <<>> for null
    lineDone,      \* LineSpec: deriveItemFromLine has run on line
    lineTokens,    \* LineSpec: number of tokens line was built from
    ignored,       \* LineSpec: what shouldIgnoreLine(line) returned to
                   \*           deriveItemFromLine
    candidates,    \* ModelSpec: the parsed JSON array given to sanitizeModelItems
    normalized,    \* ModelSpec: what sanitizeModelItems returned
    sanitizeDone,  \* ModelSpec: sanitizeModelItems has run on candidates
    raw,           \* NormSpec: the string given to the normalizers
    rawTokens,     \* NormSpec: number of tokens raw was built from
    unitOut,       \* NormSpec: <<normalizeUnit(raw), normalizeUnit of that>>
    quantityOut,   \* NormSpec: <<sanitizeQuantity(raw), sanitizeQuantity of that>>
    OCR_API_KEY,   \* Spec: the module constant OCR_API_KEY
    lines,         \* Spec: the argument of parseReceiptLines
    pc,            \* Spec: position of the parseReceiptLines invocation
    response,      \* Spec: what the network answered to the one fetch
    extract,       \* Spec: "notCalled", "pending", "returned" or "rejected":
                   \*       the promise of extractMealsWithModel
    aiItems,       \* Spec: what extractMealsWithModel returned
    result,        \* Spec: what the promise of parseReceiptLines resolved to
    settled,       \* Spec: "pending", "resolved" or "rejected"
    fetches,       \* Spec: number of outbound requests issued
    usedHeuristic, \* Spec: parseLinesHeuristically was called by this invocation
    logged,        \* Spec: the console.error messages written, in order
    calls,         \* PairSpec: the frames of two invocations of
                   \*           parseReceiptLines in flight together
    API_KEY,       \* CacheSpec: the module constant API_KEY
    targetLanguage, \* CacheSpec: the language translateArray was called with
    arrayItems,    \* CacheSpec: the items translateArray was called with
    arrayPc,       \* CacheSpec: position of the translateArray invocation
    tasks,         \* CacheSpec: the translateText calls of items.map, in order
    stored,        \* CacheSpec: the cache as AsyncStorage holds it, for
                   \*            targetLanguage: original text -> translation
    translations,  \* CacheSpec: what the promise of translateArray resolved to
    apiFailed,     \* CacheSpec: a call of translateTextWithAPI has thrown
    isProcessingReceipt, \* ScreenSpec: the state isProcessingReceipt
    receiptImageUri,     \* ScreenSpec: the state receiptImageUri, <<>> for null
    defaultLocationId,   \* ScreenSpec: the memo defaultLocationId, <<>> for ''
    scanPc,        \* ScreenSpec: position of handleProcessReceipt
    ocrLines,      \* ScreenSpec: the lines recognizeReceiptText resolved to
    batchItems,    \* ScreenSpec: the state batchItems
    toast,         \* ScreenSpec: the title key of the last toast shown
    exits          \* ScreenSpec: the ways handleProcessReceipt has ended so far

vars == <<line, item, lineDone, lineTokens, ignored, candidates, normalized,
          sanitizeDone, raw, rawTokens, unitOut, quantityOut,
          OCR_API_KEY, lines, pc, response, extract, aiItems, result, settled,
          fetches, usedHeuristic, logged, calls,
          API_KEY, targetLanguage, arrayItems, arrayPc, tasks, stored,
          translations, apiFailed,
          isProcessingReceipt, receiptImageUri, defaultLocationId, scanPc,
          ocrLines, batchItems, toast, exits>>

lineVars == <<line, item, lineDone, lineTokens, ignored>>
modelVars == <<candidates, normalized, sanitizeDone>>
normVars == <<raw, rawTokens, unitOut, quantityOut>>
pipeVars == <<OCR_API_KEY, lines, pc, response, extract, aiItems, result, settled,
              fetches, usedHeuristic, logged>>
pairVars == <<calls>>
cacheVars == <<API_KEY, targetLanguage, arrayItems, arrayPc, tasks, stored,
               translations, apiFailed>>
screenVars == <<isProcessingReceipt, receiptImageUri, defaultLocationId, scanPc,
                ocrLines, batchItems, toast, exits>>

-----------------------------------------------------------------------------
(* Characters *)

Digits == {"0", "1", "2", "3", "4", "5", "6", "7", "8", "9"}

UpperLetters == <<"A", "B", "C", "D", "E", "F", "G", "H", "I", "J", "K", "L", "M",
                  "N", "O", "P", "Q", "R", "S", "T", "U", "V", "W", "X", "Y", "Z">>

LowerLetters == <<"a", "b", "c", "d", "e", "f", "g", "h", "i", "j", "k", "l", "m",
                  "n", "o", "p", "q", "r", "s", "t", "u", "v", "w", "x", "y", "z">>

Range(s) == {s[i] : i \in 1..Len(s)}

IsDigit(c) == c \in Digits

\* \s of the regular expressions, and what String.prototype.trim removes
SpaceChars == {" ", "\t"}

IsSpace(c) == c \in SpaceChars

\* \w of the regular expressions
WordChars == Range(UpperLetters) \cup Range(LowerLetters) \cup Digits \cup {"_"}

IsWordChar(c) == c \in WordChars

LowerOf ==
    [c \in Range(UpperLetters) |->
        LowerLetters[CHOOSE i \in 1..Len(UpperLetters) : UpperLetters[i] = c]]

LowerChar(c) == IF c \in DOMAIN LowerOf THEN LowerOf[c] ELSE c

toLowerCase(s) == [i \in 1..Len(s) |-> LowerChar(s[i])]

SetMin(S) == CHOOSE x \in S : \A y \in S : x <= y
SetMax(S) == CHOOSE x \in S : \A y \in S : x >= y

trim(s) ==
    LET keep == {i \in 1..Len(s) : ~IsSpace(s[i])}
    IN  IF keep = {} THEN <<>> ELSE SubSeq(s, SetMin(keep), SetMax(keep))

\* s.slice(from - 1): the suffix that starts at 1-based position from
Suffix(s, from) == SubSeq(s, from, Len(s))

\* s.slice(0, upto - 1): the prefix that ends before 1-based position upto
Prefix(s, upto) == SubSeq(s, 1, upto - 1)

\* pat occurs in s at position i
OccursAt(s, i, pat) ==
    /\ i >= 1
    /\ i + Len(pat) - 1 <= Len(s)
    /\ \A k \in 1..Len(pat) : s[i + k - 1] = pat[k]

\* pat occurs in s at position i, letter case ignored (the i flag)
OccursAtCI(s, i, pat) ==
    /\ i >= 1
    /\ i + Len(pat) - 1 <= Len(s)
    /\ \A k \in 1..Len(pat) : LowerChar(s[i + k - 1]) = LowerChar(pat[k])

includes(s, pat) == \E i \in 1..(Len(s) + 1) : OccursAt(s, i, pat)

\* \b at the gap before position i (i = Len(s) + 1 is the end of the string)
WordBoundary(s, i) ==
    LET before == i > 1 /\ IsWordChar(s[i - 1])
        after == i <= Len(s) /\ IsWordChar(s[i])
    IN  before # after

\* end of the maximal run of digits that starts at position i (i - 1 if none)
RECURSIVE DigitRunEnd(_, _)
DigitRunEnd(s, i) ==
    IF i <= Len(s) /\ IsDigit(s[i]) THEN DigitRunEnd(s, i + 1) ELSE i - 1

\* end of the maximal run of white space that starts at position i (i - 1 if none)
RECURSIVE SpaceRunEnd(_, _)
SpaceRunEnd(s, i) ==
    IF i <= Len(s) /\ IsSpace(s[i]) THEN SpaceRunEnd(s, i + 1) ELSE i - 1

-----------------------------------------------------------------------------
(* Constants of the parser *)

\* STOP_WORDS
STOP_WORDS == {
    <<"s", "u", "b", "t", "o", "t", "a", "l">>,
    <<"t", "o", "t", "a", "l">>,
    <<"c", "h", "a", "n", "g", "e">>,
    <<"c", "r", "e", "d", "i", "t">>,
    <<"d", "e", "b", "i", "t">>,
    <<"c", "a", "s", "h">>,
    <<"v", "i", "s", "a">>,
    <<"m", "a", "s", "t", "e", "r", "c", "a", "r", "d">>,
    <<"p", "a", "y", "m", "e", "n", "t">>,
    <<"b", "a", "l", "a", "n", "c", "e">>,
    <<"t", "a", "x">>,
    <<"i", "v", "a">>,
    <<"v", "a", "t">>,
    <<"a", "m", "o", "u", "n", "t", " ", "d", "u", "e">>,
    <<"t", "h", "a", "n", "k", " ", "y", "o", "u">>,
    <<"s", "t", "o", "r", "e">>,
    <<"r", "e", "c", "e", "i", "p", "t">>,
    <<"i", "n", "v", "o", "i", "c", "e">>,
    <<"c", "l", "e", "r", "k">>,
    <<"i", "t", "e", "m", "s">> }

\* DEFAULT_UNIT = 'pcs'
DEFAULT_UNIT == <<"p", "c", "s">>

\* The currency alternatives of PRICE_AT_END_REGEX. Of the class [$ euro pound yen]
\* only "$" is in the alphabet of the model.
CurrencyTokens == {
    <<"$">>,
    <<"U", "S", "D">>,
    <<"E", "U", "R">>,
    <<"G", "B", "P">>,
    <<"M", "X", "N">>,
    <<"C", "A", "D">> }

\* The unit alternatives of QUANTITY_UNIT_REGEX in the order the engine tries
\* them: pcs? is pcs then pc, units? is units then unit.
UnitAlternatives == <<
    <<"k", "g">>,
    <<"g">>,
    <<"m", "g">>,
    <<"l", "b">>,
    <<"l", "b", "s">>,
    <<"o", "z">>,
    <<"l">>,
    <<"m", "l">>,
    <<"c", "l">>,
    <<"p", "c", "s">>,
    <<"p", "c">>,
    <<"p", "c">>,
    <<"p", "a", "c", "k">>,
    <<"p", "k", "t">>,
    <<"p", "k", "g">>,
    <<"b", "a", "g">>,
    <<"c", "t">>,
    <<"e", "a">>,
    <<"u", "n", "i", "t", "s">>,
    <<"u", "n", "i", "t">> >>

\* The class [\-\*\d.] of cleanName's leading-prefix pattern
IsPrefixChar(c) == c \in {"-", "*", "."} \cup Digits

-----------------------------------------------------------------------------
(* Normalizer *)

RECURSIVE CollapseFrom(_, _)
\* value.replace(/\s+/g, ' ') from position i on
CollapseFrom(s, i) ==
    IF i > Len(s) THEN <<>>
    ELSE IF IsSpace(s[i]) THEN <<" ">> \o CollapseFrom(s, SpaceRunEnd(s, i) + 1)
    ELSE <<s[i]>> \o CollapseFrom(s, i + 1)

RECURSIVE UnspacePunctFrom(_, _)
\* value.replace(/\s([.,])/g, '$1') from position i on
UnspacePunctFrom(s, i) ==
    IF i > Len(s) THEN <<>>
    ELSE IF IsSpace(s[i]) /\ i < Len(s) /\ s[i + 1] \in {".", ","}
    THEN <<s[i + 1]>> \o UnspacePunctFrom(s, i + 2)
    ELSE <<s[i]>> \o UnspacePunctFrom(s, i + 1)

\* Mutant: the value is trimmed only; runs of white space are left as they are
normalizeWhitespace_TrimOnly(value) == trim(value)

normalizeWhitespace(value) == trim(UnspacePunctFrom(CollapseFrom(value, 1), 1))

\* Mutant: a unit that is no synonym loses its plural ending
normalizeUnit_DropsPlural(unit) ==
    IF unit = <<>> THEN DEFAULT_UNIT
    ELSE LET n == toLowerCase(unit)
         IN  IF n \in {<<"l", "b">>, <<"l", "b", "s">>} THEN <<"l", "b">>
             ELSE IF n = <<"p", "c">> \/ n = <<"p", "c", "s">> \/ OccursAt(n, 1, <<"u", "n", "i", "t">>) \/ n = <<"e", "a">>
             THEN DEFAULT_UNIT
             ELSE IF n = <<"p", "k", "t">> \/ n = <<"p", "k", "g">> \/ n = <<"p", "a", "c", "k">> \/ n = <<"b", "a", "g">>
             THEN <<"p", "a", "c", "k">>
             ELSE IF Len(n) > 1 /\ n[Len(n)] = "s" THEN SubSeq(n, 1, Len(n) - 1)
             ELSE n

\* Mutant: the synonyms are looked up in the unit as written
normalizeUnit_CaseSensitive(unit) ==
    IF unit = <<>> THEN DEFAULT_UNIT
    ELSE IF unit \in {<<"l", "b">>, <<"l", "b", "s">>} THEN <<"l", "b">>
    ELSE IF unit = <<"p", "c">> \/ unit = <<"p", "c", "s">> \/ OccursAt(unit, 1, <<"u", "n", "i", "t">>) \/ unit = <<"e", "a">>
    THEN DEFAULT_UNIT
    ELSE IF unit = <<"p", "k", "t">> \/ unit = <<"p", "k", "g">> \/ unit = <<"p", "a", "c", "k">> \/ unit = <<"b", "a", "g">>
    THEN <<"p", "a", "c", "k">>
    ELSE toLowerCase(unit)

\* The empty sequence stands for both a missing argument and the empty string.
normalizeUnit(unit) ==
    IF unit = <<>> THEN DEFAULT_UNIT
    ELSE LET n == toLowerCase(unit)
         IN  IF n \in {<<"l", "b">>, <<"l", "b", "s">>} THEN <<"l", "b">>
             ELSE IF n = <<"p", "c">> \/ n = <<"p", "c", "s">> \/ OccursAt(n, 1, <<"u", "n", "i", "t">>) \/ n = <<"e", "a">>
             THEN DEFAULT_UNIT
             ELSE IF n = <<"p", "k", "t">> \/ n = <<"p", "k", "g">> \/ n = <<"p", "a", "c", "k">> \/ n = <<"b", "a", "g">>
             THEN <<"p", "a", "c", "k">>
             ELSE n

\* Mutant: the decimal comma is left as it is
sanitizeQuantity_KeepsComma(value) == IF value = <<>> THEN <<"1">> ELSE value

\* value.replace(',', '.'): a string pattern replaces the first occurrence only
sanitizeQuantity(value) ==
    IF value = <<>> THEN <<"1">>
    ELSE LET commas == {i \in 1..Len(value) : value[i] = ","}
         IN  IF commas = {} THEN value
             ELSE [i \in 1..Len(value) |-> IF i = SetMin(commas) THEN "." ELSE value[i]]

-----------------------------------------------------------------------------
(* Line Classifier *)

AllSpaceFrom(s, i) == \A k \in i..Len(s) : IsSpace(s[k])

\* /^\d{2}\/\d{2}\/\d{2,4}$/
IsDate(s) ==
    /\ Len(s) \in {8, 9, 10}
    /\ \A k \in {1, 2, 4, 5} : IsDigit(s[k])
    /\ s[3] = "/" /\ s[6] = "/"
    /\ \A k \in 7..Len(s) : IsDigit(s[k])

\* Mutant: the stop words are looked for in the line as written
shouldIgnoreLine_CaseSensitive(l) ==
    IF trim(l) = <<>> THEN TRUE
    ELSE LET n == trim(l)
         IN  IF Len(n) < 3 THEN TRUE
             ELSE IF \A k \in 1..Len(n) : n[k] \in {"-", "=", "*", "_"} THEN TRUE
             ELSE IF IsDate(n) THEN TRUE
             ELSE IF \A k \in 1..Len(n) : IsDigit(n[k]) THEN TRUE
             ELSE \E word \in STOP_WORDS : includes(n, word)

shouldIgnoreLine(l) ==
    IF trim(l) = <<>> THEN TRUE
    ELSE LET n == toLowerCase(trim(l))
         IN  IF Len(n) < 3 THEN TRUE
             ELSE IF \A k \in 1..Len(n) : n[k] \in {"-", "=", "*", "_"} THEN TRUE
             ELSE IF IsDate(n) THEN TRUE
             ELSE IF \A k \in 1..Len(n) : IsDigit(n[k]) THEN TRUE
             ELSE \E word \in STOP_WORDS : includes(n, word)

-----------------------------------------------------------------------------
(* Line Tokenizer/Extractor *)

\* \s*\d+(?:[.,]\d{2})?\s*$ matches the whole of s from position k
AmountToEnd(s, k) ==
    LET b == SpaceRunEnd(s, k) + 1
        d == DigitRunEnd(s, b)
    IN  /\ d >= b
        /\ \/ AllSpaceFrom(s, d + 1)
           \/ /\ d + 3 <= Len(s)
              /\ s[d + 1] \in {".", ","}
              /\ IsDigit(s[d + 2]) /\ IsDigit(s[d + 3])
              /\ AllSpaceFrom(s, d + 4)

\* \d+[.,]\d{2}\s*$ matches the whole of s from position k
DecimalToEnd(s, k) ==
    LET d == DigitRunEnd(s, k)
    IN  /\ d >= k
        /\ d + 3 <= Len(s)
        /\ s[d + 1] \in {".", ","}
        /\ IsDigit(s[d + 2]) /\ IsDigit(s[d + 3])
        /\ AllSpaceFrom(s, d + 4)

\* PRICE_AT_END_REGEX matches at position i (both alternatives end at $)
PriceAt(s, i) ==
    \/ \E cur \in CurrencyTokens : OccursAtCI(s, i, cur) /\ AmountToEnd(s, i + Len(cur))
    \/ IsSpace(s[i]) /\ DecimalToEnd(s, i + 1)
    \/ i = 1 /\ DecimalToEnd(s, 1)

\* Mutant: no price is removed
stripTrailingPrice_Keeps(l) == trim(l)

\* line.replace(PRICE_AT_END_REGEX, '').trim(): the leftmost match is removed
stripTrailingPrice(l) ==
    LET at == {i \in 1..Len(l) : PriceAt(l, i)}
    IN  IF at = {} THEN trim(l) ELSE trim(Prefix(l, SetMin(at)))

RECURSIVE PrefixRunEnd(_, _)
\* end of the run [\-\*\d.]+ that starts at position i (i - 1 if none)
PrefixRunEnd(s, i) ==
    IF i <= Len(s) /\ IsPrefixChar(s[i]) THEN PrefixRunEnd(s, i + 1) ELSE i - 1

\* line.replace(/^[\-\*\d.]+\s*/, '')
StripLeadingPrefix(s) ==
    LET e == PrefixRunEnd(s, 1)
    IN  IF e < 1 THEN s ELSE Suffix(s, SpaceRunEnd(s, e + 1) + 1)

\* length of the match of /\b(qty|ea)\b\.?/i at position i, 0 if none
NoiseTokenLen(s, i) ==
    LET w == IF OccursAtCI(s, i, <<"q", "t", "y">>) THEN 3
             ELSE IF OccursAtCI(s, i, <<"e", "a">>) THEN 2
             ELSE 0
    IN  IF w > 0 /\ WordBoundary(s, i) /\ WordBoundary(s, i + w)
        THEN IF i + w <= Len(s) /\ s[i + w] = "." THEN w + 1 ELSE w
        ELSE 0

RECURSIVE StripNoiseFrom(_, _)
\* s.replace(/\b(qty|ea)\b\.?/gi, '') from position i on
StripNoiseFrom(s, i) ==
    IF i > Len(s) THEN <<>>
    ELSE IF NoiseTokenLen(s, i) > 0 THEN StripNoiseFrom(s, i + NoiseTokenLen(s, i))
    ELSE <<s[i]>> \o StripNoiseFrom(s, i + 1)

cleanName(l) == normalizeWhitespace(trim(StripNoiseFrom(StripLeadingPrefix(l), 1)))

\* end of \d+(?:[.,]\d+)? that starts at position i
QuantityEnd(s, i) ==
    LET d == DigitRunEnd(s, i)
    IN  IF d + 2 <= Len(s) /\ s[d + 1] \in {".", ","} /\ IsDigit(s[d + 2])
        THEN DigitRunEnd(s, d + 2)
        ELSE d

\* where the unit group starts when the quantity starts at i: after (?:\s?)
UnitStart(s, i) ==
    LET q == QuantityEnd(s, i)
    IN  IF q + 1 <= Len(s) /\ IsSpace(s[q + 1]) THEN q + 2 ELSE q + 1

\* QUANTITY_UNIT_REGEX matches at position i
QuantityUnitAt(s, i) ==
    /\ IsDigit(s[i])
    /\ \E a \in 1..Len(UnitAlternatives) : OccursAtCI(s, UnitStart(s, i), UnitAlternatives[a])

\* working.match(QUANTITY_UNIT_REGEX): <<>> for no match, else one record with
\* the index of the match and its groups
QuantityUnitMatch(s) ==
    LET at == {i \in 1..Len(s) : QuantityUnitAt(s, i)}
    IN  IF at = {} THEN <<>>
        ELSE LET i == SetMin(at)
                 u == UnitStart(s, i)
                 a == SetMin({k \in 1..Len(UnitAlternatives) :
                                 OccursAtCI(s, u, UnitAlternatives[k])})
             IN  << [index |-> i,
                     quantity |-> SubSeq(s, i, QuantityEnd(s, i)),
                     unit |-> SubSeq(s, u, u + Len(UnitAlternatives[a]) - 1)] >>

\* where x or X stands when MULTIPLIER_REGEX is tried at position i
MultiplierX(s, i) ==
    LET d == DigitRunEnd(s, i)
    IN  IF d + 1 <= Len(s) /\ IsSpace(s[d + 1]) THEN d + 2 ELSE d + 1

\* MULTIPLIER_REGEX matches at position i
MultiplierAt(s, i) ==
    /\ IsDigit(s[i])
    /\ MultiplierX(s, i) <= Len(s)
    /\ s[MultiplierX(s, i)] \in {"x", "X"}
    /\ WordBoundary(s, MultiplierX(s, i) + 1)

\* working.match(MULTIPLIER_REGEX): <<>> for no match, else one record with the
\* matched text (multiplierMatch[0]) and the quantity group
MultiplierMatch(s) ==
    LET at == {i \in 1..Len(s) : MultiplierAt(s, i)}
    IN  IF at = {} THEN <<>>
        ELSE LET i == SetMin(at)
             IN  << [index |-> i,
                     text |-> SubSeq(s, i, MultiplierX(s, i)),
                     quantity |-> SubSeq(s, i, DigitRunEnd(s, i))] >>

\* s.replace(pat, ''): a string pattern removes its first occurrence
RemoveFirst(s, pat) ==
    LET at == {i \in 1..Len(s) : OccursAt(s, i, pat)}
    IN  IF at = {} THEN s
        ELSE Prefix(s, SetMin(at)) \o Suffix(s, SetMin(at) + Len(pat))

\* /\d+(?:[.,]\d+)?$/ matches at position i
TrailingNumberAt(s, i) == IsDigit(s[i]) /\ QuantityEnd(s, i) = Len(s)

\* Mutant: the trailing number is left where it is
StripTrailingNumber_Keeps(s) == s

\* the two lines that strip a bare trailing number from working
StripTrailingNumber(s) ==
    LET at == {i \in 1..Len(s) : TrailingNumberAt(s, i)}
    IN  IF at = {} THEN s ELSE trim(Prefix(s, SetMin(at)))

Item(n, q, u) == [name |-> n, quantity |-> q, unit |-> u]

\* a || b on strings
OrElse(a, b) == IF a # <<>> THEN a ELSE b

\* The text the name is cleaned from, on the quantity+unit branch, on the
\* multiplier branch and on the default branch
NameSource(working, quantityUnitMatch, multiplierMatch) ==
    IF quantityUnitMatch # <<>>
    THEN OrElse(trim(Prefix(working, quantityUnitMatch[1].index)), working)
    ELSE IF multiplierMatch # <<>>
    THEN trim(RemoveFirst(working, multiplierMatch[1].text))
    ELSE StripTrailingNumber(working)

\* The quantity emitted on each branch
QuantityOf(quantityUnitMatch, multiplierMatch) ==
    IF quantityUnitMatch # <<>> THEN sanitizeQuantity(quantityUnitMatch[1].quantity)
    ELSE IF multiplierMatch # <<>> THEN sanitizeQuantity(multiplierMatch[1].quantity)
    ELSE <<"1">>

\* The unit emitted on each branch
UnitOf(quantityUnitMatch) ==
    IF quantityUnitMatch # <<>> THEN normalizeUnit(quantityUnitMatch[1].unit)
    ELSE DEFAULT_UNIT

\* if (!name) return null; return { name, quantity, unit }
EmitItem(name, quantity, unit) ==
    IF name = <<>> THEN <<>> ELSE << Item(name, quantity, unit) >>

\* Mutant: the multiplier is looked at before the quantity with its unit
DeriveFromMatches_MultiplierFirst(working, quantityUnitMatch, multiplierMatch) ==
    IF multiplierMatch # <<>>
    THEN EmitItem(cleanName(NameSource(working, <<>>, multiplierMatch)),
                  QuantityOf(<<>>, multiplierMatch),
                  UnitOf(<<>>))
    ELSE EmitItem(cleanName(NameSource(working, quantityUnitMatch, multiplierMatch)),
                  QuantityOf(quantityUnitMatch, multiplierMatch),
                  UnitOf(quantityUnitMatch))

\* deriveItemFromLine once both patterns have been tried on working
DeriveFromMatches(working, quantityUnitMatch, multiplierMatch) ==
    EmitItem(cleanName(NameSource(working, quantityUnitMatch, multiplierMatch)),
             QuantityOf(quantityUnitMatch, multiplierMatch),
             UnitOf(quantityUnitMatch))

\* deriveItemFromLine of a line that is not ignored, from working on
DeriveFromWorking(working) ==
    IF working = <<>> THEN <<>>
    ELSE DeriveFromMatches(working, QuantityUnitMatch(working), MultiplierMatch(working))

\* deriveItemFromLine: <<>> is null, <<it>> is the item it
deriveItemFromLine(l) ==
    IF shouldIgnoreLine(l) THEN <<>>
    ELSE DeriveFromWorking(normalizeWhitespace(stripTrailingPrice(l)))

-----------------------------------------------------------------------------
(* Heuristic Parser *)

\* Mutant: the names are compared as written, not lowercased
PushUnseenName_CaseSensitive(acc, it) ==
    IF it # <<>> /\ it[1].name \notin acc.seenNames
    THEN [items |-> Append(acc.items, it[1]),
          seenNames |-> acc.seenNames \cup {it[1].name}]
    ELSE acc

\* One pass of the loop body of parseLinesHeuristically: acc holds items and
\* seenNames; a null item and an item whose lowercased name was seen are skipped.
PushUnseenName(acc, it) ==
    IF it # <<>> /\ toLowerCase(it[1].name) \notin acc.seenNames
    THEN [items |-> Append(acc.items, it[1]),
          seenNames |-> acc.seenNames \cup {toLowerCase(it[1].name)}]
    ELSE acc

RECURSIVE HeuristicLoop(_, _, _)
\* the for loop of parseLinesHeuristically from line i on
HeuristicLoop(ls, i, acc) ==
    IF i > Len(ls) THEN acc.items
    ELSE HeuristicLoop(ls, i + 1, PushUnseenName(acc, deriveItemFromLine(ls[i])))

\* Mutant: each item is put in front of the ones found before it
parseLinesHeuristically_Reversed(ls) ==
    LET kept == IF Len(ls) = 0 THEN <<>>
                ELSE HeuristicLoop(ls, 1, [items |-> <<>>, seenNames |-> {}])
    IN  [k \in 1..Len(kept) |-> kept[Len(kept) + 1 - k]]

parseLinesHeuristically(ls) ==
    IF Len(ls) = 0 THEN <<>>
    ELSE HeuristicLoop(ls, 1, [items |-> <<>>, seenNames |-> {}])

-----------------------------------------------------------------------------
(* Model-Assisted Extractor: response sanitization *)

\* A field the JSON object does not have (or has as null). It is a sequence that
\* is no string, so it differs from every string.
Undefined == <<"undefined">>

\* a ?? b
Coalesce(a, b) == IF a # Undefined THEN a ELSE b

\* An element of the parsed array: a JSON object, whose fields are strings (a
\* JSON number stands as the string String() makes of it) or Undefined, or
\* anything that is no object (null, a number, a string).
Candidate(isObject, name, quantity, qty, unit, units, measurement) ==
    [isObject |-> isObject, name |-> name, quantity |-> quantity, qty |-> qty,
     unit |-> unit, units |-> units, measurement |-> measurement]

\* a JSON object with a name and nothing else
CandidateNamed(name) ==
    Candidate(TRUE, name, Undefined, Undefined, Undefined, Undefined, Undefined)

\* Mutant: the key leaves the quantity out
ItemKey_WithoutQuantity(it) == toLowerCase(it.name) \o <<"|">> \o it.unit

\* const key = `${item.name.toLowerCase()}|${item.quantity}|${item.unit}`
ItemKey(it) == toLowerCase(it.name) \o <<"|">> \o it.quantity \o <<"|">> \o it.unit

\* The item a candidate is turned into; its name is empty when the candidate
\* is skipped for want of a name.
CandidateItem(c) ==
    LET name == cleanName(trim(Coalesce(c.name, <<>>)))
        quantityRaw == trim(Coalesce(c.quantity, Coalesce(c.qty, <<>>)))
        unitRaw == trim(Coalesce(c.unit, Coalesce(c.units, Coalesce(c.measurement, <<>>))))
    IN  Item(name,
             sanitizeQuantity(IF quantityRaw # <<>> THEN quantityRaw ELSE <<"1">>),
             normalizeUnit(unitRaw))

\* Mutant: the entries are compared as the model wrote them, before they
\* are normalized
PushUnseenKey_RawKey(acc, c, it) ==
    IF c.isObject /\ it.name # <<>> /\ c \notin acc.seen
    THEN [normalized |-> Append(acc.normalized, it), seen |-> acc.seen \cup {c}]
    ELSE acc

\* One pass of the loop body of sanitizeModelItems: acc holds normalized and
\* seen; a candidate that is no object, has no name, or whose key was seen is
\* skipped.
PushUnseenKey(acc, c, it) ==
    IF c.isObject /\ it.name # <<>> /\ ItemKey(it) \notin acc.seen
    THEN [normalized |-> Append(acc.normalized, it), seen |-> acc.seen \cup {ItemKey(it)}]
    ELSE acc

RECURSIVE SanitizeLoop(_, _, _)
\* the for loop of sanitizeModelItems from candidate i on
SanitizeLoop(input, i, acc) ==
    IF i > Len(input) THEN acc.normalized
    ELSE SanitizeLoop(input, i + 1, PushUnseenKey(acc, input[i], CandidateItem(input[i])))

\* sanitizeModelItems of an array; what is no array never reaches the loop
sanitizeModelItems(input) == SanitizeLoop(input, 1, [normalized |-> <<>>, seen |-> {}])

-----------------------------------------------------------------------------
(* LineSpec: deriveItemFromLine applied to every line built from LineTokens *)

MaxTokens == 4

\* The pieces receipt lines are built from: a product word, both white-space
\* characters, digits, both decimal separators, a bullet, the multiplier
\* letter, units, the noise tokens, a currency symbol and a stop word.
LineTokens == {
    <<"M", "i", "l", "k">>,
    <<" ">>,
    <<"2">>,
    <<".">>,
    <<",">>,
    <<"-">>,
    <<"x">>,
    <<"k", "g">>,
    <<"q", "t", "y">> }

LineInit ==
    /\ line = <<>>
    /\ lineTokens = 0
    /\ item = <<>>
    /\ lineDone = FALSE
    /\ ignored = FALSE

\* The OCR collaborator extends the line by one token.
AppendToken ==
    /\ ~lineDone
    /\ ~sanitizeDone
    /\ lineTokens < MaxTokens
    /\ \E tok \in LineTokens : line' = line \o tok
    /\ lineTokens' = lineTokens + 1
    /\ UNCHANGED <<item, lineDone, ignored, candidates, normalized, sanitizeDone>>

\* const item = deriveItemFromLine(rawLine), whose first step is
\* shouldIgnoreLine(line)
Derive ==
    /\ ~lineDone
    /\ ~sanitizeDone
    /\ ignored' = shouldIgnoreLine(line)
    /\ item' = deriveItemFromLine(line)
    /\ lineDone' = TRUE
    /\ UNCHANGED <<line, lineTokens, candidates, normalized, sanitizeDone>>

\* The text comes back from the model as the name of the one element of its
\* reply: return sanitizeModelItems(parsed)
SanitizeLine ==
    /\ ~lineDone
    /\ ~sanitizeDone
    /\ candidates' = << CandidateNamed(line) >>
    /\ normalized' = sanitizeModelItems(<< CandidateNamed(line) >>)
    /\ sanitizeDone' = TRUE
    /\ UNCHANGED lineVars

-----------------------------------------------------------------------------
(* ClassifySpec: deriveItemFromLine applied to the lines the classifier tells
   apart *)

\* The pieces of those lines: two digits and a slash, two digits, one digit,
\* the separator characters, a space, a letter and a stop word in mixed case.
ClassifyTokens == {
    <<"1", "2", "/">>,
    <<"1", "2">>,
    <<"1">>,
    <<"-">>,
    <<"=", "*", "_">>,
    <<" ">>,
    <<"a">>,
    <<"T", "a", "x">> }

\* The OCR collaborator extends the line by one token.
AppendClassifyToken ==
    /\ ~lineDone
    /\ ~sanitizeDone
    /\ lineTokens < MaxTokens
    /\ \E tok \in ClassifyTokens : line' = line \o tok
    /\ lineTokens' = lineTokens + 1
    /\ UNCHANGED <<item, lineDone, ignored, candidates, normalized, sanitizeDone>>

-----------------------------------------------------------------------------
(* PriceSpec: deriveItemFromLine applied to lines with prices and units *)

\* The pieces of those lines: a product name, a space, a currency symbol and
\* an ISO code in lower case, an integer, an amount with two decimals, a
\* decimal part after a comma, and a unit synonym in capitals.
PriceTokens == {
    <<"M", "i", "l", "k">>,
    <<" ">>,
    <<"$">>,
    <<"u", "s", "d">>,
    <<"9">>,
    <<"9", ".", "9", "9">>,
    <<",", "5">>,
    <<"L", "B", "S">> }

\* The OCR collaborator extends the line by one token.
AppendPriceToken ==
    /\ ~lineDone
    /\ ~sanitizeDone
    /\ lineTokens < MaxTokens
    /\ \E tok \in PriceTokens : line' = line \o tok
    /\ lineTokens' = lineTokens + 1
    /\ UNCHANGED <<item, lineDone, ignored, candidates, normalized, sanitizeDone>>

-----------------------------------------------------------------------------
(* ModelSpec: sanitizeModelItems applied to every array of candidates *)

MaxCandidates == 2

SeqsUpTo(S, n) == UNION {[1..k -> S] : k \in 0..n}

\* name fields: two spellings of one product, and a name that cleans to nothing
NameFields == { <<"M", "i", "l", "k">>, <<"m", "i", "l", "k">>, <<"-", " ">> }

\* <<quantity, qty>> fields: none, quantity only, qty only, both
QuantityFields == {
    <<Undefined, Undefined>>,
    <<<<"1">>, Undefined>>,
    <<Undefined, <<"1", ",", "5">>>>,
    <<<<"1", ".", "5">>, <<"1">>>> }

\* <<unit, units, measurement>> fields: none, unit, units, measurement
UnitFields == {
    <<Undefined, Undefined, Undefined>>,
    <<<<"l", "b">>, Undefined, Undefined>>,
    <<Undefined, <<"L", "B", "S">>, Undefined>>,
    <<Undefined, Undefined, <<"k", "g">>>> }

NonObject == Candidate(FALSE, Undefined, Undefined, Undefined, Undefined, Undefined, Undefined)

CandidatePool ==
    {Candidate(TRUE, n, q[1], q[2], u[1], u[2], u[3]) :
        n \in NameFields, q \in QuantityFields, u \in UnitFields} \cup {NonObject}

ModelInit ==
    /\ candidates = <<>>
    /\ normalized = <<>>
    /\ sanitizeDone = FALSE

\* The model's reply holds one more element.
AddCandidate ==
    /\ ~sanitizeDone
    /\ Len(candidates) < MaxCandidates
    /\ \E c \in CandidatePool : candidates' = Append(candidates, c)
    /\ UNCHANGED <<normalized, sanitizeDone>>

\* return sanitizeModelItems(parsed)
Sanitize ==
    /\ ~sanitizeDone
    /\ normalized' = sanitizeModelItems(candidates)
    /\ sanitizeDone' = TRUE
    /\ UNCHANGED candidates

-----------------------------------------------------------------------------
(* NormSpec: normalizeUnit and sanitizeQuantity applied to a string, and to
   what they returned *)

MaxRawTokens == 2

\* The pieces of units and quantities: the unit synonyms in both letter cases,
\* a plural ending, units that have no synonym, and decimals with either
\* separator.
RawTokens == {
    <<"l", "b">>, <<"L", "B">>, <<"s">>,
    <<"p", "c">>, <<"E", "a">>, <<"u", "n", "i", "t">>,
    <<"p", "k", "t">>, <<"p", "k", "g">>, <<"P", "a", "c", "k">>, <<"b", "a", "g">>,
    <<"k", "g">>, <<"g">>, <<"m", "g">>, <<"O", "z">>, <<"l">>, <<"m", "l">>,
    <<"c", "l">>, <<"c", "t">>,
    <<"1", ",", "5">>, <<",", "5">>, <<".", "5">> }

\* raw = <<>> is the missing argument (undefined) and the empty string
NormInit ==
    /\ raw = <<>>
    /\ rawTokens = 0
    /\ unitOut = <<>>
    /\ quantityOut = <<>>

\* The caller's string grows by one token.
AppendRawToken ==
    /\ unitOut = <<>>
    /\ quantityOut = <<>>
    /\ rawTokens < MaxRawTokens
    /\ \E tok \in RawTokens : raw' = raw \o tok
    /\ rawTokens' = rawTokens + 1
    /\ UNCHANGED <<unitOut, quantityOut>>

\* normalizeUnit(raw), and normalizeUnit of its result
ApplyNormalizeUnit ==
    /\ unitOut = <<>>
    /\ unitOut' = <<normalizeUnit(raw), normalizeUnit(normalizeUnit(raw))>>
    /\ UNCHANGED <<raw, rawTokens, quantityOut>>

\* sanitizeQuantity(raw), and sanitizeQuantity of its result
ApplySanitizeQuantity ==
    /\ quantityOut = <<>>
    /\ quantityOut' = <<sanitizeQuantity(raw), sanitizeQuantity(sanitizeQuantity(raw))>>
    /\ UNCHANGED <<raw, rawTokens, unitOut>>

-----------------------------------------------------------------------------
(* Model-Assisted Extractor: the request and its reply *)

\* What the network does to the one request of extractMealsWithModel:
\*   status  "rejected": fetch rejects; "notOk": response.ok is false;
\*           "ok": response.ok is true
\*   body    "rejected": response.text() / response.json() rejects;
\*           otherwise what the reply's message content holds once the code
\*           fences are stripped and it is trimmed:
\*           "empty"     nothing
\*           "notJson"   text JSON.parse throws on
\*           "scalar"    JSON that is no array and no object (null, 3, "x")
\*           "object"    a JSON object whose items is no array
\*           "array"     a JSON array, its elements in entries
\*           "items"     a JSON object whose items is an array, in entries
Reply(status, body, entries) == [status |-> status, body |-> body, entries |-> entries]

NoReply == Reply("none", "none", <<>>)

\* What a call of extractMealsWithModel comes to: it returns items or it
\* rejects, and it writes log.
Outcome(rejected, items, log) == [rejected |-> rejected, items |-> items, log |-> log]

\* Mutant: the whole body is wrapped in a try/catch that returns [], so that
\* no rejection leaves extractMealsWithModel
extractMealsWithModel_CatchesAll(ls, reply) ==
    IF Len(ls) = 0 THEN Outcome(FALSE, <<>>, <<>>)
    ELSE IF reply.status = "rejected" \/ reply.body = "rejected"
    THEN Outcome(FALSE, <<>>, <<"Receipt item extraction failed">>)
    ELSE IF reply.status = "notOk"
    THEN Outcome(FALSE, <<>>, <<"Receipt item extraction API error">>)
    ELSE IF reply.body = "notJson"
    THEN Outcome(FALSE, <<>>, <<"Failed to parse receipt item extraction response">>)
    ELSE IF reply.body \in {"array", "items"}
    THEN Outcome(FALSE, sanitizeModelItems(reply.entries), <<>>)
    ELSE Outcome(FALSE, <<>>, <<>>)

\* Mutant: response.ok is not looked at, so that the body of an error response
\* is parsed like any other
extractMealsWithModel_SkipsOkCheck(ls, reply) ==
    IF Len(ls) = 0 THEN Outcome(FALSE, <<>>, <<>>)
    ELSE IF reply.status = "rejected" \/ reply.body = "rejected" THEN Outcome(TRUE, <<>>, <<>>)
    ELSE IF reply.body = "notJson"
    THEN Outcome(FALSE, <<>>, <<"Failed to parse receipt item extraction response">>)
    ELSE IF reply.body \in {"array", "items"}
    THEN Outcome(FALSE, sanitizeModelItems(reply.entries), <<>>)
    ELSE Outcome(FALSE, <<>>, <<>>)

\* extractMealsWithModel(lines), given the network's reply to its request
extractMealsWithModel(ls, reply) ==
    IF Len(ls) = 0 THEN Outcome(FALSE, <<>>, <<>>)
    ELSE IF reply.status = "rejected" THEN Outcome(TRUE, <<>>, <<>>)
    ELSE IF reply.body = "rejected" THEN Outcome(TRUE, <<>>, <<>>)
    ELSE IF reply.status = "notOk"
    THEN Outcome(FALSE, <<>>, <<"Receipt item extraction API error">>)
    ELSE IF reply.body = "empty" THEN Outcome(FALSE, <<>>, <<>>)
    ELSE IF reply.body = "notJson"
    THEN Outcome(FALSE, <<>>, <<"Failed to parse receipt item extraction response">>)
    ELSE IF reply.body \in {"array", "items"}
    THEN Outcome(FALSE, sanitizeModelItems(reply.entries), <<>>)
    ELSE Outcome(FALSE, <<>>, <<>>)

-----------------------------------------------------------------------------
(* Pipeline Orchestrator *)

\* What parseReceiptLines has come to: "Done" with its promise settled, or
\* "AwaitFetch" with the request in flight. extractor is what has become of
\* the promise of extractMealsWithModel, and aiItems what it returned.
Step(next, settledAs, items, heuristic, log, extractor, modelItems) ==
    [next |-> next, settled |-> settledAs, result |-> items,
     usedHeuristic |-> heuristic, log |-> log, extract |-> extractor,
     aiItems |-> modelItems]

\* Mutant: the credential is not looked at
parseReceiptLinesStart_IgnoresKey(ls, key) ==
    IF Len(ls) = 0 THEN Step("Done", "resolved", <<>>, FALSE, <<>>, "notCalled", <<>>)
    ELSE Step("AwaitFetch", "pending", <<>>, FALSE, <<>>, "pending", <<>>)

\* parseReceiptLines up to its await
parseReceiptLinesStart(ls, key) ==
    IF Len(ls) = 0 THEN Step("Done", "resolved", <<>>, FALSE, <<>>, "notCalled", <<>>)
    ELSE IF key = ""
    THEN Step("Done", "resolved", parseLinesHeuristically(ls), TRUE, <<>>, "notCalled", <<>>)
    ELSE Step("AwaitFetch", "pending", <<>>, FALSE, <<>>, "pending", <<>>)

\* Mutant: the model's items are never returned
ReturnsModelItems_Never(outcome) == FALSE

\* if (aiItems.length) return aiItems: whether the model's items are returned
ReturnsModelItems(outcome) == ~outcome.rejected /\ Len(outcome.items) # 0

\* Mutant: the catch block returns nothing instead of falling through to the
\* heuristic parser
parseReceiptLinesResume_CatchReturnsEmpty(ls, outcome) ==
    Step("Done", "resolved",
         IF outcome.rejected THEN <<>>
         ELSE IF Len(outcome.items) # 0 THEN outcome.items
         ELSE parseLinesHeuristically(ls),
         ~outcome.rejected /\ Len(outcome.items) = 0,
         outcome.log,
         IF outcome.rejected THEN "rejected" ELSE "returned",
         outcome.items)

\* Mutant: no try/catch around the await, so that a rejection of
\* extractMealsWithModel rejects parseReceiptLines
parseReceiptLinesResume_NoCatch(ls, outcome) ==
    Step("Done",
         IF outcome.rejected THEN "rejected" ELSE "resolved",
         IF outcome.rejected THEN <<>>
         ELSE IF Len(outcome.items) # 0 THEN outcome.items
         ELSE parseLinesHeuristically(ls),
         ~outcome.rejected /\ Len(outcome.items) = 0,
         outcome.log,
         IF outcome.rejected THEN "rejected" ELSE "returned",
         outcome.items)

\* Mutant: a rejected extraction is tried again instead of falling through
\* to the heuristic parser
parseReceiptLinesResume_RetriesOnReject(ls, outcome) ==
    IF outcome.rejected
    THEN Step("AwaitFetch", "pending", <<>>, FALSE, outcome.log, "pending", <<>>)
    ELSE Step("Done", "resolved",
              IF Len(outcome.items) # 0 THEN outcome.items ELSE parseLinesHeuristically(ls),
              Len(outcome.items) = 0, outcome.log, "returned", outcome.items)

\* Mutant: after the heuristic parser has found nothing the model is asked
\* again
parseReceiptLinesResume_AsksAgain(ls, outcome) ==
    IF ~outcome.rejected /\ Len(outcome.items) = 0 /\ Len(parseLinesHeuristically(ls)) = 0
    THEN Step("AwaitFetch", "pending", <<>>, TRUE, outcome.log, "pending", <<>>)
    ELSE Step("Done", "resolved",
              IF ~outcome.rejected /\ Len(outcome.items) # 0
              THEN outcome.items ELSE parseLinesHeuristically(ls),
              outcome.rejected \/ Len(outcome.items) = 0,
              outcome.log,
              IF outcome.rejected THEN "rejected" ELSE "returned",
              outcome.items)

\* parseReceiptLines from its await on, given what extractMealsWithModel came
\* to: the model's items if it returned some, else the heuristic parser's
parseReceiptLinesResume(ls, outcome) ==
    Step("Done", "resolved",
         IF ReturnsModelItems(outcome) THEN outcome.items ELSE parseLinesHeuristically(ls),
         ~ReturnsModelItems(outcome),
         IF outcome.rejected
         THEN outcome.log \o <<"Receipt meal extraction failed">>
         ELSE outcome.log,
         IF outcome.rejected THEN "rejected" ELSE "returned",
         outcome.items)

-----------------------------------------------------------------------------
(* Spec: one invocation of parseReceiptLines *)

MaxLines == 2

MaxEntries == 1

\* Receipt lines: two spellings of one product with different quantities and
\* units, a multiplier line of another product, and a total line.
LinePool == {
    <<"M", "i", "l", "k", " ", "2", "L">>,
    <<"m", "i", "l", "k", " ", "1", ",", "5", "k", "g">>,
    <<"2", "x", " ", "E", "g", "g", "s">>,
    <<"T", "O", "T", "A", "L", " ", "9", ".", "9", "9">> }

\* Elements of the model's reply: one product three times (twice the same once
\* normalized, once with another quantity), a name that cleans to nothing, and
\* a product whose quantity is a fraction and whose unit is missing.
ReplyPool == {
    Candidate(TRUE, <<"E", "g", "g", "s">>, <<"1", "/", "2">>, Undefined, Undefined, Undefined, Undefined),
    Candidate(TRUE, <<"M", "i", "l", "k">>, <<"2">>, Undefined, <<"l">>, Undefined, Undefined),
    Candidate(TRUE, <<"m", "i", "l", "k">>, Undefined, <<"2">>, Undefined, <<"L">>, Undefined),
    Candidate(TRUE, <<"M", "i", "l", "k">>, <<"1", ",", "5">>, Undefined, <<"l">>, Undefined, Undefined),
    Candidate(TRUE, <<"-", " ">>, <<"3">>, Undefined, Undefined, Undefined, Undefined) }

\* const { ocrApiKey, translationApiKey } = getExpoExtra()
ExtraKeys == {"", "sk"}

PipeInit ==
    /\ \E ocrApiKey \in ExtraKeys, translationApiKey \in ExtraKeys :
          OCR_API_KEY = IF ocrApiKey # "" THEN ocrApiKey
                        ELSE IF translationApiKey # "" THEN translationApiKey
                        ELSE ""
    /\ lines = <<>>
    /\ pc = "Start"
    /\ response = NoReply
    /\ extract = "notCalled"
    /\ aiItems = <<>>
    /\ result = <<>>
    /\ settled = "pending"
    /\ fetches = 0
    /\ usedHeuristic = FALSE
    /\ logged = <<>>

\* parseReceiptLines has run to s; reaching its await means that
\* extractMealsWithModel has issued its fetch
Reach(s) ==
    /\ pc' = s.next
    /\ settled' = s.settled
    /\ result' = s.result
    /\ usedHeuristic' = s.usedHeuristic
    /\ logged' = logged \o s.log
    /\ extract' = s.extract
    /\ aiItems' = s.aiItems
    /\ fetches' = IF s.next = "AwaitFetch" THEN fetches + 1 ELSE fetches

\* the caller invokes parseReceiptLines(ls); it runs to its await or to its end
Call ==
    /\ pc = "Start"
    /\ \E ls \in SeqsUpTo(LinePool, MaxLines) :
          /\ lines' = ls
          /\ Reach(parseReceiptLinesStart(ls, OCR_API_KEY))
    /\ UNCHANGED <<OCR_API_KEY, response>>

\* the network: the request fails (a network error), so that fetch rejects
FetchRejects ==
    /\ pc = "AwaitFetch"
    /\ response' = Reply("rejected", "none", <<>>)
    /\ pc' = "FetchSettled"
    /\ UNCHANGED <<OCR_API_KEY, lines, extract, aiItems, result, settled, fetches,
                   usedHeuristic, logged>>

\* the network: a response arrives, with a 2xx status or another one
FetchResolves ==
    /\ pc = "AwaitFetch"
    /\ \E status \in {"ok", "notOk"} : response' = Reply(status, "none", <<>>)
    /\ pc' = "FetchSettled"
    /\ UNCHANGED <<OCR_API_KEY, lines, extract, aiItems, result, settled, fetches,
                   usedHeuristic, logged>>

\* the network: reading the body fails, so that response.text() or
\* response.json() rejects (for json() also: the body is no JSON)
BodyRejects ==
    /\ pc = "AwaitBody"
    /\ response' = Reply(response.status, "rejected", <<>>)
    /\ pc' = "BodySettled"
    /\ UNCHANGED <<OCR_API_KEY, lines, extract, aiItems, result, settled, fetches,
                   usedHeuristic, logged>>

\* the network: the body is read, and its message content holds no item array
BodyResolvesUnusable ==
    /\ pc = "AwaitBody"
    /\ \E body \in {"empty", "notJson", "scalar", "object"} :
          response' = Reply(response.status, body, <<>>)
    /\ pc' = "BodySettled"
    /\ UNCHANGED <<OCR_API_KEY, lines, extract, aiItems, result, settled, fetches,
                   usedHeuristic, logged>>

\* the network: the body is read, and its message content is a JSON array or
\* an object with an items array
BodyResolvesItems ==
    /\ pc = "AwaitBody"
    /\ \E body \in {"array", "items"}, entries \in SeqsUpTo(ReplyPool, MaxEntries) :
          response' = Reply(response.status, body, entries)
    /\ pc' = "BodySettled"
    /\ UNCHANGED <<OCR_API_KEY, lines, extract, aiItems, result, settled, fetches,
                   usedHeuristic, logged>>

\* extractMealsWithModel resumes after await fetch(...) with a response and
\* reads its body, with response.text() or response.json()
ReadBody ==
    /\ pc = "FetchSettled"
    /\ response.status # "rejected"
    /\ pc' = "AwaitBody"
    /\ UNCHANGED <<OCR_API_KEY, lines, response, extract, aiItems, result, settled,
                   fetches, usedHeuristic, logged>>

\* extractMealsWithModel resumes after an await that settled for good (fetch
\* rejected, or the body was read or failed to be) and returns or throws into
\* parseReceiptLines, which runs to its end
Resume ==
    /\ \/ pc = "FetchSettled" /\ response.status = "rejected"
       \/ pc = "BodySettled"
    /\ Reach(parseReceiptLinesResume(lines, extractMealsWithModel(lines, response)))
    /\ UNCHANGED <<OCR_API_KEY, lines, response>>

-----------------------------------------------------------------------------
(* KeySpec: sanitizeModelItems applied to entries that hold the separator of
   the key *)

\* Names and quantities as the model may write them, with and without '|'
KeyNameFields == { <<"a">>, <<"a", "|", "1">>, <<"M", "i", "l", "k">> }

KeyQuantityFields == { <<"1">>, <<"1", "|", "1">>, <<"2">> }

KeyPool ==
    {Candidate(TRUE, n, q, Undefined, Undefined, Undefined, Undefined) :
        n \in KeyNameFields, q \in KeyQuantityFields}

\* The model's reply holds one more element.
AddKeyCandidate ==
    /\ ~sanitizeDone
    /\ Len(candidates) < MaxCandidates
    /\ \E c \in KeyPool : candidates' = Append(candidates, c)
    /\ UNCHANGED <<normalized, sanitizeDone>>

-----------------------------------------------------------------------------
(* PairSpec: two invocations of parseReceiptLines in flight together *)

\* the two invocations, each with the frame of its own call
Invocations == {"a", "b"}

\* the lines one invocation may be called with
PairLinePool == { <<>>,
                  <<<<"2", "x", " ", "E", "g", "g", "s">>>>,
                  << <<"M", "i", "l", "k", " ", "2", "L">>,
                     <<"m", "i", "l", "k", " ", "1", ",", "5", "k", "g">> >> }

\* the item arrays the model may answer one invocation with
PairEntriesPool ==
    { <<>>,
      <<Candidate(TRUE, <<"M", "i", "l", "k">>, <<"2">>, Undefined, <<"l">>, Undefined, Undefined),
        Candidate(TRUE, <<"m", "i", "l", "k">>, Undefined, <<"2">>, Undefined, <<"L">>, Undefined)>> }

\* The frame of one invocation: its argument, its position, the answer to
\* its own request and what its promise resolved to. The de-duplication sets
\* (const seenNames = new Set(), const seen = new Set()) are created inside
\* the calls of parseLinesHeuristically and sanitizeModelItems that the
\* frame makes, and so belong to it.
Frame(ls, at, reply, items, settledAs) ==
    [lines |-> ls, pc |-> at, response |-> reply, result |-> items, settled |-> settledAs]

PairInit == calls = [i \in Invocations |-> Frame(<<>>, "Start", NoReply, <<>>, "pending")]

\* Mutant: the frames are one module-level object, shared by the invocations
OwnFrame_Shared(c, i) == c["a"]

\* the frame an invocation reads: the parameters and locals of its own call
OwnFrame(c, i) == c[i]

\* invocation i has run to s
PairReach(i, ls, s) ==
    calls' = [calls EXCEPT ![i].lines = ls, ![i].pc = s.next,
                           ![i].result = s.result, ![i].settled = s.settled]

\* the caller invokes parseReceiptLines(ls) a first or a second time
PairCall(i) ==
    /\ calls[i].pc = "Start"
    /\ \E ls \in PairLinePool : PairReach(i, ls, parseReceiptLinesStart(ls, OCR_API_KEY))

\* the network settles the fetch of invocation i
PairFetchSettles(i) ==
    /\ calls[i].pc = "AwaitFetch"
    /\ \E status \in {"rejected", "ok", "notOk"} :
          calls' = [calls EXCEPT ![i].response = Reply(status, "none", <<>>),
                                 ![i].pc = "FetchSettled"]

\* invocation i reads the body of its response
PairReadBody(i) ==
    /\ calls[i].pc = "FetchSettled"
    /\ calls[i].response.status # "rejected"
    /\ calls' = [calls EXCEPT ![i].pc = "AwaitBody"]

\* the network settles the body read of invocation i
PairBodySettles(i) ==
    /\ calls[i].pc = "AwaitBody"
    /\ \/ \E body \in {"rejected", "notJson"} :
             calls' = [calls EXCEPT ![i].response = Reply(calls[i].response.status, body, <<>>),
                                    ![i].pc = "BodySettled"]
       \/ \E entries \in PairEntriesPool :
             calls' = [calls EXCEPT ![i].response = Reply(calls[i].response.status, "array", entries),
                                    ![i].pc = "BodySettled"]

\* what invocation i comes to when it resumes in frame f
PairResumeIn(i, f) ==
    PairReach(i, calls[i].lines,
              parseReceiptLinesResume(f.lines, extractMealsWithModel(f.lines, f.response)))

\* invocation i resumes after its await and runs to its end
PairResume(i) ==
    /\ \/ calls[i].pc = "FetchSettled" /\ calls[i].response.status = "rejected"
       \/ calls[i].pc = "BodySettled"
    /\ PairResumeIn(i, OwnFrame(calls, i))

-----------------------------------------------------------------------------
(* CacheSpec: translateArray and the translateText calls it starts *)

MaxItems == 2

\* The texts translateArray may be called with: two products and a blank
TextPool == { <<"M", "i", "l", "k">>, <<"E", "g", "g", "s">>, <<" ">> }

\* the text the model answers with for text, in the target language
Translated(text) == <<"e", "s", ":">> \o text

\* cache[targetLanguage][text] = translated, on the object read from storage
Put(cache, text, translated) ==
    [t \in DOMAIN cache \cup {text} |-> IF t = text THEN translated ELSE cache[t]]

NoCache == [t \in {} |-> <<>>]

\* A translateText call: its argument, its position, the cache object it
\* read, and what its promise resolved to
Task(text, at, cache, out) == [text |-> text, pc |-> at, cache |-> cache, out |-> out]

\* translateText up to its first await: it returns the text as it is when it
\* is blank, and else awaits getCachedContentTranslations()
translateTextStart(text) ==
    IF trim(text) = <<>> THEN Task(text, "Done", NoCache, text)
    ELSE Task(text, "AwaitRead", NoCache, <<>>)

RECURSIVE StartTasks(_, _)
\* items.map((item) => translateText(item, targetLanguage)) from item k on
StartTasks(its, k) ==
    IF k > Len(its) THEN <<>>
    ELSE <<translateTextStart(its[k])>> \o StartTasks(its, k + 1)

RECURSIVE Outs(_, _)
\* what the promises of the calls resolved to, in order
Outs(ts, k) == IF k > Len(ts) THEN <<>> ELSE <<ts[k].out>> \o Outs(ts, k + 1)

CacheInit ==
    /\ API_KEY \in {<<>>, <<"t", "k">>}
    /\ targetLanguage = "en"
    /\ arrayItems = <<>>
    /\ arrayPc = "Start"
    /\ tasks = <<>>
    /\ stored \in {NoCache, Put(NoCache, <<"M", "i", "l", "k">>, <<"L", "e", "c", "h", "e">>)}
    /\ translations = <<>>
    /\ apiFailed = FALSE

\* the caller invokes translateArray(items, targetLanguage); with 'en' it
\* returns items, else every translateText call runs to its first await
translateArrayCall ==
    /\ arrayPc = "Start"
    /\ \E its \in SeqsUpTo(TextPool, MaxItems), lang \in {"en", "es"} :
          /\ arrayItems' = its
          /\ targetLanguage' = lang
          /\ IF lang = "en"
             THEN /\ arrayPc' = "Done"
                  /\ translations' = its
                  /\ tasks' = <<>>
             ELSE /\ arrayPc' = "Awaiting"
                  /\ translations' = <<>>
                  /\ tasks' = StartTasks(its, 1)
    /\ UNCHANGED <<API_KEY, stored, apiFailed>>

\* what call t goes on with once it has read cache from storage: it returns
\* the cached translation, or it calls translateTextWithAPI
AfterRead(t, cache) ==
    IF t.text \in DOMAIN cache
    THEN Task(t.text, "Done", cache, cache[t.text])
    ELSE Task(t.text, "AwaitApi", cache, <<>>)

\* AsyncStorage.getItem settles for call k, which parses the cache
ReadSettles(k) ==
    /\ tasks[k].pc = "AwaitRead"
    /\ tasks' = [tasks EXCEPT ![k] = AfterRead(tasks[k], stored)]
    /\ UNCHANGED <<API_KEY, targetLanguage, arrayItems, arrayPc, stored, translations,
                   apiFailed>>

\* what call t writes back with AsyncStorage.setItem: the object it read,
\* with its own entry
WrittenCache(t, translated) == Put(t.cache, t.text, translated)

\* translateTextWithAPI returns translated to call k (the text itself when
\* no key is configured), which adds it to its cache object and saves that
ApiResolvesWith(k, translated) ==
    /\ tasks' = [tasks EXCEPT ![k] = Task(tasks[k].text, "AwaitWrite",
                                         WrittenCache(tasks[k], translated), translated)]
    /\ stored' = WrittenCache(tasks[k], translated)

ApiResolves(k) ==
    /\ tasks[k].pc = "AwaitApi"
    /\ ApiResolvesWith(k, IF API_KEY = <<>> THEN tasks[k].text ELSE Translated(tasks[k].text))
    /\ UNCHANGED <<API_KEY, targetLanguage, arrayItems, arrayPc, translations, apiFailed>>

\* translateTextWithAPI throws for call k (fetch rejects, the response is
\* not ok or its body cannot be read), which returns the text
ApiRejects(k) ==
    /\ tasks[k].pc = "AwaitApi"
    /\ API_KEY # <<>>
    /\ tasks' = [tasks EXCEPT ![k] = Task(tasks[k].text, "Done", tasks[k].cache, tasks[k].text)]
    /\ apiFailed' = TRUE
    /\ UNCHANGED <<API_KEY, targetLanguage, arrayItems, arrayPc, stored, translations>>

\* AsyncStorage.setItem settles for call k, which returns its translation
WriteSettles(k) ==
    /\ tasks[k].pc = "AwaitWrite"
    /\ tasks' = [tasks EXCEPT ![k].pc = "Done"]
    /\ UNCHANGED <<API_KEY, targetLanguage, arrayItems, arrayPc, stored, translations,
                   apiFailed>>

\* Promise.all resolves once every call has, and translateArray returns
ArrayResolves ==
    /\ arrayPc = "Awaiting"
    /\ \A k \in 1..Len(tasks) : tasks[k].pc = "Done"
    /\ arrayPc' = "Done"
    /\ translations' = Outs(tasks, 1)
    /\ UNCHANGED <<API_KEY, targetLanguage, arrayItems, tasks, stored, apiFailed>>

-----------------------------------------------------------------------------
(* ScreenSpec: handleProcessReceipt of src/src/screens/AddItemScreen.tsx *)

(* The screen calls recognizeReceiptText and parseReceiptLines of the module
   '@/lib/ocr'. They are collaborators here, taken by their signatures: the
   recognition resolves to lines or rejects, the parsing gives an item list.
   As src/src/lib/ocr/index.ts stands, the recognition always rejects and
   the parsing always gives the empty list. *)

\* What the recognition may resolve to: no text, a line with no product, a
\* product line
ScanLinePool == { <<>>,
                  << <<"T", "O", "T", "A", "L", " ", "9", ".", "9", "9">> >>,
                  << <<"M", "i", "l", "k", " ", "2", "L">> >> }

\* What the parsing of ls may give: nothing, or the products of the lines
ParsedPool(ls) == { <<>>, parseLinesHeuristically(ls) }

\* How far handleProcessReceipt has run: where it waits (or "Idle" when it
\* has returned), the busy flag, the toast shown, batchItems, and the way it
\* ended ("none" while it has not)
ScanStep(next, busy, title, batch, path) ==
    [next |-> next, busy |-> busy, toast |-> title, batchItems |-> batch, path |-> path]

\* Mutant: the flag is reset at the end of the try block and not in a
\* finally, so that an early return or a throw leaves it set
BusyAfter_NoFinally(path) == path # "itemsFound"

\* finally { setIsProcessingReceipt(false) }: the flag after the try
\* statement was left on path
BusyAfter(path) == FALSE

\* handleProcessReceipt up to its first await
handleProcessReceiptStart(uri, location, busy, batch) ==
    IF uri = <<>>
    THEN ScanStep("Idle", busy, "attachReceiptFirstTitle", batch, "noReceipt")
    ELSE IF location = <<>>
    THEN ScanStep("Idle", busy, "noLocationsTitle", batch, "noLocation")
    ELSE ScanStep("AwaitOcr", TRUE, "none", batch, "none")

\* handleProcessReceipt after recognizeReceiptText has resolved to ls
handleProcessReceiptAfterOcr(ls, batch) ==
    IF Len(ls) = 0
    THEN ScanStep("Idle", BusyAfter("noText"), "ocrNoTextTitle", <<>>, "noText")
    ELSE ScanStep("AwaitParse", TRUE, "none", batch, "none")

\* handleProcessReceipt after parseReceiptLines has given parsedItems
handleProcessReceiptAfterParse(parsedItems) ==
    IF Len(parsedItems) = 0
    THEN ScanStep("Idle", BusyAfter("noProducts"), "ocrNoItemsTitle", <<>>, "noProducts")
    ELSE ScanStep("Idle", BusyAfter("itemsFound"), "ocrSuccessTitle", parsedItems, "itemsFound")

\* the catch block of handleProcessReceipt
handleProcessReceiptCatch(batch) ==
    ScanStep("Idle", BusyAfter("error"), "ocrErrorTitle", batch, "error")

ScreenInit ==
    /\ isProcessingReceipt = FALSE
    /\ receiptImageUri = <<>>
    /\ defaultLocationId = <<>>
    /\ scanPc = "Idle"
    /\ ocrLines = <<>>
    /\ batchItems = <<>>
    /\ toast = "none"
    /\ exits = {}

\* handleProcessReceipt has run to s
ScanReach(s) ==
    /\ scanPc' = s.next
    /\ isProcessingReceipt' = s.busy
    /\ toast' = IF s.toast = "none" THEN toast ELSE s.toast
    /\ batchItems' = s.batchItems
    /\ exits' = IF s.path = "none" THEN exits ELSE exits \cup {s.path}

\* the user attaches a receipt photo or removes it
updateReceiptAttachment ==
    /\ \E attachment \in {<<>>, <<"u", "r", "i">>} :
          /\ attachment # receiptImageUri
          /\ receiptImageUri' = attachment
    /\ UNCHANGED <<isProcessingReceipt, defaultLocationId, scanPc, ocrLines, batchItems,
                   toast, exits>>

\* the storage locations load or change, and with them the default one
LocationsChange ==
    /\ \E location \in {<<>>, <<"l", "o", "c">>} :
          /\ location # defaultLocationId
          /\ defaultLocationId' = location
    /\ UNCHANGED <<isProcessingReceipt, receiptImageUri, scanPc, ocrLines, batchItems,
                   toast, exits>>

\* the user presses the scan button, which is disabled while
\* isProcessingReceipt is set
PressScan ==
    /\ ~isProcessingReceipt
    /\ scanPc = "Idle"
    /\ ScanReach(handleProcessReceiptStart(receiptImageUri, defaultLocationId,
                                           isProcessingReceipt, batchItems))
    /\ UNCHANGED <<receiptImageUri, defaultLocationId, ocrLines>>

\* recognizeReceiptText rejects
OcrRejects ==
    /\ scanPc = "AwaitOcr"
    /\ ScanReach(handleProcessReceiptCatch(batchItems))
    /\ UNCHANGED <<receiptImageUri, defaultLocationId, ocrLines>>

\* recognizeReceiptText resolves to lines
OcrResolves ==
    /\ scanPc = "AwaitOcr"
    /\ \E ls \in ScanLinePool :
          /\ ocrLines' = ls
          /\ ScanReach(handleProcessReceiptAfterOcr(ls, batchItems))
    /\ UNCHANGED <<receiptImageUri, defaultLocationId>>

\* parseReceiptLines(lines) gives its items
ParseResolves ==
    /\ scanPc = "AwaitParse"
    /\ \E parsedItems \in ParsedPool(ocrLines) :
          ScanReach(handleProcessReceiptAfterParse(parsedItems))
    /\ UNCHANGED <<receiptImageUri, defaultLocationId, ocrLines>>

\* the parser and its callers before any call
ParserInit == LineInit /\ ModelInit /\ NormInit /\ PipeInit /\ PairInit

\* the parser reads neither the translation key nor the translation cache
Init == ParserInit /\ ScreenInit /\ CacheInit /\ API_KEY = <<>> /\ stored = NoCache

Next ==
    \/ Call /\ UNCHANGED <<lineVars, modelVars, normVars, pairVars, cacheVars, screenVars>>
    \/ FetchRejects /\ UNCHANGED <<lineVars, modelVars, normVars, pairVars, cacheVars, screenVars>>
    \/ FetchResolves /\ UNCHANGED <<lineVars, modelVars, normVars, pairVars, cacheVars, screenVars>>
    \/ BodyRejects /\ UNCHANGED <<lineVars, modelVars, normVars, pairVars, cacheVars, screenVars>>
    \/ BodyResolvesUnusable /\ UNCHANGED <<lineVars, modelVars, normVars, pairVars, cacheVars, screenVars>>
    \/ BodyResolvesItems /\ UNCHANGED <<lineVars, modelVars, normVars, pairVars, cacheVars, screenVars>>
    \/ ReadBody /\ UNCHANGED <<lineVars, modelVars, normVars, pairVars, cacheVars, screenVars>>
    \/ Resume /\ UNCHANGED <<lineVars, modelVars, normVars, pairVars, cacheVars, screenVars>>

Spec == Init /\ [][Next]_vars

\* the network: the request in flight, or the body read in flight, settles
NetworkSettles ==
    /\ FetchRejects \/ FetchResolves \/ BodyRejects \/ BodyResolvesUnusable \/ BodyResolvesItems
    /\ UNCHANGED <<lineVars, modelVars, normVars, pairVars, cacheVars, screenVars>>

\* the positions of an invocation
Positions == {"Start", "AwaitFetch", "FetchSettled", "AwaitBody", "BodySettled", "Done"}

\* the event loop: the continuation of a settled await runs (ReadBody or
\* Resume, one of which is enabled wherever an await has settled), stated by
\* its effect on pc
ContinuationRuns ==
    /\ pc \in {"FetchSettled", "BodySettled"}
    /\ pc' \in Positions
    /\ pc' # pc

\* Spec with the assumption that the network call resolves or rejects in
\* the end (fetch, and the read of the body of its response) and with the
\* event loop running every continuation that is ready. Nothing is assumed
\* about the caller.
LiveSpec == Init /\ [][Next]_vars /\ WF_vars(NetworkSettles) /\ WF_pc(ContinuationRuns)

LineNext ==
    \/ AppendToken /\ UNCHANGED <<pipeVars, normVars, pairVars, cacheVars, screenVars>>
    \/ Derive /\ UNCHANGED <<pipeVars, normVars, pairVars, cacheVars, screenVars>>
    \/ SanitizeLine /\ UNCHANGED <<pipeVars, normVars, pairVars, cacheVars, screenVars>>

\* the parser does not read the credential
LineSpecInit == Init /\ OCR_API_KEY = ""

LineSpec == LineSpecInit /\ [][LineNext]_vars

ModelNext ==
    \/ AddCandidate /\ UNCHANGED <<lineVars, pipeVars, normVars, pairVars, cacheVars, screenVars>>
    \/ Sanitize /\ UNCHANGED <<lineVars, pipeVars, normVars, pairVars, cacheVars, screenVars>>

\* sanitizeModelItems is reached only with a credential
ModelSpecInit == Init /\ OCR_API_KEY # ""

ModelSpec == ModelSpecInit /\ [][ModelNext]_vars

ClassifyNext ==
    \/ AppendClassifyToken /\ UNCHANGED <<pipeVars, normVars, pairVars, cacheVars, screenVars>>
    \/ Derive /\ UNCHANGED <<pipeVars, normVars, pairVars, cacheVars, screenVars>>

ClassifySpec == LineSpecInit /\ [][ClassifyNext]_vars

NormNext ==
    \/ AppendRawToken /\ UNCHANGED <<lineVars, modelVars, pipeVars, pairVars, cacheVars, screenVars>>
    \/ ApplyNormalizeUnit /\ UNCHANGED <<lineVars, modelVars, pipeVars, pairVars, cacheVars, screenVars>>
    \/ ApplySanitizeQuantity /\ UNCHANGED <<lineVars, modelVars, pipeVars, pairVars, cacheVars, screenVars>>

NormSpec == LineSpecInit /\ [][NormNext]_vars

PriceNext ==
    \/ AppendPriceToken /\ UNCHANGED <<pipeVars, normVars, pairVars, cacheVars, screenVars>>
    \/ Derive /\ UNCHANGED <<pipeVars, normVars, pairVars, cacheVars, screenVars>>

PriceSpec == LineSpecInit /\ [][PriceNext]_vars

KeyNext ==
    \/ AddKeyCandidate /\ UNCHANGED <<lineVars, pipeVars, normVars, pairVars, cacheVars, screenVars>>
    \/ Sanitize /\ UNCHANGED <<lineVars, pipeVars, normVars, pairVars, cacheVars, screenVars>>

KeySpec == ModelSpecInit /\ [][KeyNext]_vars

PairNext ==
    \/ (\E i \in Invocations : PairCall(i)) /\ UNCHANGED <<lineVars, modelVars, normVars, pipeVars, cacheVars, screenVars>>
    \/ (\E i \in Invocations : PairFetchSettles(i)) /\ UNCHANGED <<lineVars, modelVars, normVars, pipeVars, cacheVars, screenVars>>
    \/ (\E i \in Invocations : PairReadBody(i)) /\ UNCHANGED <<lineVars, modelVars, normVars, pipeVars, cacheVars, screenVars>>
    \/ (\E i \in Invocations : PairBodySettles(i)) /\ UNCHANGED <<lineVars, modelVars, normVars, pipeVars, cacheVars, screenVars>>
    \/ (\E i \in Invocations : PairResume(i)) /\ UNCHANGED <<lineVars, modelVars, normVars, pipeVars, cacheVars, screenVars>>

PairSpec == Init /\ [][PairNext]_vars

CacheNext ==
    \/ translateArrayCall /\ UNCHANGED <<lineVars, modelVars, normVars, pipeVars, pairVars, screenVars>>
    \/ (\E k \in 1..Len(tasks) : ReadSettles(k)) /\ UNCHANGED <<lineVars, modelVars, normVars, pipeVars, pairVars, screenVars>>
    \/ (\E k \in 1..Len(tasks) : ApiResolves(k)) /\ UNCHANGED <<lineVars, modelVars, normVars, pipeVars, pairVars, screenVars>>
    \/ (\E k \in 1..Len(tasks) : ApiRejects(k)) /\ UNCHANGED <<lineVars, modelVars, normVars, pipeVars, pairVars, screenVars>>
    \/ (\E k \in 1..Len(tasks) : WriteSettles(k)) /\ UNCHANGED <<lineVars, modelVars, normVars, pipeVars, pairVars, screenVars>>
    \/ ArrayResolves /\ UNCHANGED <<lineVars, modelVars, normVars, pipeVars, pairVars, screenVars>>

\* the translation does not read the credential of the parser
CacheSpecInit == ParserInit /\ ScreenInit /\ CacheInit /\ OCR_API_KEY = ""

CacheSpec == CacheSpecInit /\ [][CacheNext]_vars

ScreenNext ==
    \/ updateReceiptAttachment /\ UNCHANGED <<lineVars, modelVars, normVars, pipeVars, pairVars, cacheVars>>
    \/ LocationsChange /\ UNCHANGED <<lineVars, modelVars, normVars, pipeVars, pairVars, cacheVars>>
    \/ PressScan /\ UNCHANGED <<lineVars, modelVars, normVars, pipeVars, pairVars, cacheVars>>
    \/ OcrRejects /\ UNCHANGED <<lineVars, modelVars, normVars, pipeVars, pairVars, cacheVars>>
    \/ OcrResolves /\ UNCHANGED <<lineVars, modelVars, normVars, pipeVars, pairVars, cacheVars>>
    \/ ParseResolves /\ UNCHANGED <<lineVars, modelVars, normVars, pipeVars, pairVars, cacheVars>>

ScreenSpec == LineSpecInit /\ [][ScreenNext]_vars

-----------------------------------------------------------------------------
(* Claims about the orchestrator, checked under Spec *)

Done == pc = "Done"

\* C1. Fallback correctness: with a credential and non-empty lines, when
\* extractMealsWithModel rejects (the request fails, or reading the body
\* fails), parseReceiptLines resolves to exactly parseLinesHeuristically(lines).
C1_FallbackOnThrow ==
    (Done /\ OCR_API_KEY # "" /\ lines # <<>> /\ extract = "rejected")
        => (settled = "resolved" /\ result = parseLinesHeuristically(lines))

\* C1 witness: the request failed and two heuristic items were returned.
C1_Witness ==
    /\ Done
    /\ response.status = "rejected"
    /\ extract = "rejected"
    /\ Len(result) = 2

IsItemList(r) ==
    \A k \in 1..Len(r) : DOMAIN r[k] = {"name", "quantity", "unit"}

\* C2. Orchestrator totality: the promise of parseReceiptLines never rejects,
\* whatever the network answers (the request fails, a non-2xx status, a body
\* that cannot be read, unusable content, an empty or a non-empty item array):
\* it is pending until the invocation is done and resolved to an item list
\* from then on, to [] for empty lines.
C2_Totality ==
    /\ settled # "rejected"
    /\ Done => (settled = "resolved" /\ IsItemList(result))
    /\ (Done /\ lines = <<>>) => result = <<>>
    /\ ~Done => settled = "pending"

\* C2 witness: reading the body failed and the promise still resolved.
C2_Witness ==
    /\ Done
    /\ response.body = "rejected"
    /\ settled = "resolved"

\* C3. With a credential and non-empty lines: when extractMealsWithModel
\* returns a non-empty list, parseReceiptLines returns exactly that list (the
\* sanitized entries of the reply) and the heuristic parser is not called; when
\* it returns an empty list, parseReceiptLines returns
\* parseLinesHeuristically(lines).
C3_ModelResultWins ==
    (Done /\ extract = "returned")
        => /\ aiItems # <<>> =>
                /\ result = aiItems
                /\ aiItems = sanitizeModelItems(response.entries)
                /\ ~usedHeuristic
           /\ aiItems = <<>> =>
                /\ result = parseLinesHeuristically(lines)
                /\ usedHeuristic

\* C3 witness: the model's items were returned although the heuristic parser
\* would have found other ones.
C3_Witness ==
    /\ Done
    /\ extract = "returned"
    /\ aiItems # <<>>
    /\ parseLinesHeuristically(lines) # <<>>
    /\ result # parseLinesHeuristically(lines)

\* C4. Without a credential (OCR_API_KEY is empty) the invocation never enters
\* the model attempt: no request is issued, extractMealsWithModel is not
\* called, and for non-empty lines it returns parseLinesHeuristically(lines).
C4_NoCredentialHeuristicOnly ==
    OCR_API_KEY = ""
        => /\ pc \in {"Start", "Done"}
           /\ fetches = 0
           /\ extract = "notCalled"
           /\ (Done /\ lines # <<>>) =>
                /\ settled = "resolved"
                /\ usedHeuristic
                /\ result = parseLinesHeuristically(lines)

\* C4 witness: without a credential an invocation returned a heuristic item.
C4_Witness ==
    /\ OCR_API_KEY = ""
    /\ Done
    /\ usedHeuristic
    /\ Len(result) >= 1

\* The reply holds no item array: a non-2xx status, or content that is empty,
\* no JSON, or JSON of another shape.
UnusableReply ==
    \/ response.status = "notOk"
    \/ response.body \in {"empty", "notJson", "scalar", "object"}

\* The request failed, or the body of the response could not be read.
NetworkFailure == response.status = "rejected" \/ response.body = "rejected"

\* C5 as stated: extractMealsWithModel never rejects; on a network error, a
\* non-2xx status, an unreadable body and a shape mismatch alike it returns an
\* empty list.
C5_ExtractorNeverRejects ==
    /\ extract # "rejected"
    /\ (Done /\ OCR_API_KEY # "" /\ lines # <<>> /\ (NetworkFailure \/ UnusableReply))
          => (extract = "returned" /\ aiItems = <<>>)

\* C5 as amended: extractMealsWithModel returns an empty list on a non-2xx
\* status and on content that is empty, no JSON, or JSON of another shape; it
\* rejects exactly when fetch rejects or when reading the body rejects, and
\* that rejection is caught in parseReceiptLines, whose promise resolves.
C5_ExtractorRejectsOnNetworkFailureOnly ==
    /\ extract = "rejected" <=> (Done /\ NetworkFailure)
    /\ extract = "rejected" => settled = "resolved"
    /\ (Done /\ OCR_API_KEY # "" /\ lines # <<>> /\ ~NetworkFailure /\ UnusableReply)
          => (extract = "returned" /\ aiItems = <<>>)

\* C5 witness: after a non-2xx status extractMealsWithModel returned [].
C5_Witness ==
    /\ Done
    /\ response.status = "notOk"
    /\ response.body # "rejected"
    /\ extract = "returned"
    /\ aiItems = <<>>

\* C6. When the model replies with a non-2xx status, with empty content, with
\* content that is no JSON, or with JSON that is neither an array nor an
\* object holding an items array, parseReceiptLines returns
\* parseLinesHeuristically(lines).
C6_UnusableReplyFallsBack ==
    (Done /\ OCR_API_KEY # "" /\ lines # <<>> /\ UnusableReply)
        => (settled = "resolved" /\ result = parseLinesHeuristically(lines))

\* C6 witness: the content was JSON of another shape and a heuristic item was
\* returned.
C6_Witness ==
    /\ Done
    /\ response.status = "ok"
    /\ response.body = "scalar"
    /\ Len(result) >= 1

-----------------------------------------------------------------------------
(* Claims about the heuristic parser, checked under Spec on the invocations
   that returned its result *)

\* what deriveItemFromLine gives for each line of ls
RECURSIVE DerivedFrom(_, _)
DerivedFrom(ls, i) ==
    IF i > Len(ls) THEN <<>>
    ELSE <<deriveItemFromLine(ls[i])>> \o DerivedFrom(ls, i + 1)

\* the lowercased name of each derived item, <<>> for null
LowerNames(d) ==
    [i \in 1..Len(d) |-> IF d[i] = <<>> THEN <<>> ELSE toLowerCase(d[i][1].name)]

\* d holds the derived item of each line and n the lowercased names: res has
\* no two items of one lowercased name, and each of its items is the item of
\* the first line of that name
DedupFirstWins(d, n, res) ==
    /\ \A a, b \in 1..Len(res) :
          a # b => toLowerCase(res[a].name) # toLowerCase(res[b].name)
    /\ \A k \in 1..Len(res) :
          /\ \E i \in 1..Len(d) : n[i] = toLowerCase(res[k].name)
          /\ res[k] = d[SetMin({i \in 1..Len(d) : n[i] = toLowerCase(res[k].name)})][1]

\* C7. Heuristic de-duplication: parseLinesHeuristically returns at most one
\* item per lowercased name, and that item is deriveItemFromLine of the first
\* line that gives that lowercased name, whatever quantity and unit later
\* lines of that name carry.
C7_HeuristicDedupFirstWins ==
    (Done /\ usedHeuristic)
        => DedupFirstWins(DerivedFrom(lines, 1), LowerNames(DerivedFrom(lines, 1)), result)

\* two lines gave one lowercased name with different quantities
SameNameOtherQuantity(d) ==
    /\ Len(d) = 2
    /\ d[1] # <<>>
    /\ d[2] # <<>>
    /\ toLowerCase(d[1][1].name) = toLowerCase(d[2][1].name)
    /\ d[1][1].quantity # d[2][1].quantity

\* C7 witness: two lines gave one lowercased name with different quantities,
\* and one item was returned.
C7_Witness ==
    /\ Done
    /\ usedHeuristic
    /\ Len(result) = 1
    /\ SameNameOtherQuantity(DerivedFrom(lines, 1))

\* the lines whose item is kept: not null, and no earlier line gives an item
\* of the same lowercased name
KeptLines(n) ==
    {i \in 1..Len(n) : n[i] # <<>> /\ \A j \in 1..(i - 1) : n[j] # n[i]}

\* the k-th item of res is the item of the k-th kept line
KeptInLineOrder(d, kept, res) ==
    /\ Len(res) = Cardinality(kept)
    /\ \A i \in kept : res[Cardinality({j \in kept : j <= i})] = d[i][1]

\* C8. parseLinesHeuristically preserves line order: its output is the
\* non-null deriveItemFromLine results in input order with later same-name
\* items removed, that is, its k-th item is the item of the k-th kept line;
\* empty input gives empty output.
C8_HeuristicKeepsLineOrder ==
    (Done /\ usedHeuristic)
        => /\ KeptInLineOrder(DerivedFrom(lines, 1),
                              KeptLines(LowerNames(DerivedFrom(lines, 1))), result)
           /\ lines = <<>> => result = <<>>

\* C8 witness: two lines gave two items of different names.
C8_Witness ==
    /\ Done
    /\ usedHeuristic
    /\ Len(result) = 2
    /\ result[1].name # result[2].name
    /\ Cardinality(KeptLines(LowerNames(DerivedFrom(lines, 1)))) = 2

-----------------------------------------------------------------------------
(* Claims about sanitizeModelItems, checked under ModelSpec *)

\* what each candidate of cs is normalized to
RECURSIVE ItemsFrom(_, _)
ItemsFrom(cs, i) ==
    IF i > Len(cs) THEN <<>>
    ELSE <<CandidateItem(cs[i])>> \o ItemsFrom(cs, i + 1)

\* the normalized (lowercased name, quantity, unit) of an item
Triple(it) == <<toLowerCase(it.name), it.quantity, it.unit>>

\* where out holds an item of the triple of it
PlacesOf(it, out) == {k \in 1..Len(out) : Triple(out[k]) = Triple(it)}

\* the candidates that are objects with a name left once cleaned
Named(cs, its) == {i \in 1..Len(cs) : cs[i].isObject /\ its[i].name # <<>>}

\* the first named candidate of the triple of it
FirstLike(it, cs, its) == SetMin({j \in Named(cs, its) : Triple(its[j]) = Triple(it)})

DifferInQuantityOnly(a, b) ==
    /\ toLowerCase(a.name) = toLowerCase(b.name)
    /\ a.unit = b.unit
    /\ a.quantity # b.quantity

\* cs are the candidates, its what they are normalized to, out the output
DedupOnTriple(cs, its, out) ==
    \A i, j \in Named(cs, its) :
        i < j
            => /\ Triple(its[i]) = Triple(its[j])
                    => /\ Cardinality(PlacesOf(its[j], out)) = 1
                       /\ \A k \in PlacesOf(its[j], out) :
                             out[k] = its[FirstLike(its[j], cs, its)]
               /\ DifferInQuantityOnly(its[i], its[j])
                    => /\ Cardinality(PlacesOf(its[i], out)) = 1
                       /\ Cardinality(PlacesOf(its[j], out)) = 1
                       /\ (FirstLike(its[i], cs, its) = i /\ FirstLike(its[j], cs, its) = j)
                             => \A a \in PlacesOf(its[i], out), b \in PlacesOf(its[j], out) :
                                   a < b

\* C9. Model-assisted de-duplication: two entries whose normalized (lowercased
\* name, quantity, unit) are identical collapse to one, the first; two entries
\* that differ in quantity only are both retained, in their original order
\* (the order of the first entry of each triple, where one is repeated).
C9_ModelDedupOnTriple ==
    sanitizeDone => DedupOnTriple(candidates, ItemsFrom(candidates, 1), normalized)

\* two named candidates that differ in quantity only
TwoQuantities(cs, its) ==
    /\ Len(cs) = 2
    /\ Named(cs, its) = {1, 2}
    /\ DifferInQuantityOnly(its[1], its[2])

\* C9 witness: two entries that differ in quantity only gave two items.
C9_Witness ==
    /\ sanitizeDone
    /\ Len(normalized) = 2
    /\ TwoQuantities(candidates, ItemsFrom(candidates, 1))

-----------------------------------------------------------------------------
(* Claims about single lines, checked under LineSpec *)

\* not empty, no white space at either end, no two white-space characters in a row
WellFormedName(n) ==
    /\ n # <<>>
    /\ ~IsSpace(n[1])
    /\ ~IsSpace(n[Len(n)])
    /\ \A k \in 1..(Len(n) - 1) : ~(IsSpace(n[k]) /\ IsSpace(n[k + 1]))

\* C10. On the heuristic path and on the model-assisted path alike, the name
\* of every emitted item is not empty, has no leading or trailing white space
\* and holds no two consecutive spaces: a line or a model entry whose cleaned
\* name is empty gives no item.
C10_NamesWellFormed ==
    /\ lineDone => \A k \in 1..Len(item) : WellFormedName(item[k].name)
    /\ sanitizeDone => \A k \in 1..Len(normalized) : WellFormedName(normalized[k].name)

\* C10 witness: a line with two white-space characters in a row inside it gave
\* an item whose name holds a space.
C10_Witness ==
    /\ lineDone
    /\ item # <<>>
    /\ \E k \in 2..(Len(line) - 2) : IsSpace(line[k]) /\ IsSpace(line[k + 1])
    /\ " " \in Range(item[1].name)

\* a bullet, a digit or a period: the characters of the leading prefix
PrefixChars == {"-", "*", "."} \cup Digits

\* C11. For every line, the name of the item deriveItemFromLine emits never
\* starts with a bullet ('-' or '*'), a digit or a period, on the
\* quantity+unit, multiplier and default branches alike; repeated prefixes
\* and a leading "qty" followed by a number are covered.
C11_NameHasNoLeadingPrefix ==
    (lineDone /\ item # <<>>) => item[1].name[1] \notin PrefixChars

-----------------------------------------------------------------------------
(* Claims about the classifier, checked under ClassifySpec *)

\* s holds a stop word as a substring, in any letter case
ContainsStopWord(s) ==
    \E word \in STOP_WORDS, p \in 1..Len(s) :
        /\ p + Len(word) - 1 <= Len(s)
        /\ toLowerCase(SubSeq(s, p, p + Len(word) - 1)) = word

\* C12. For every line on which shouldIgnoreLine returns true,
\* deriveItemFromLine returns null; so a line that holds a stop word as a
\* substring, in any letter case, gives no item.
C12_IgnoredLineGivesNoItem ==
    lineDone
        => /\ ignored => item = <<>>
           /\ ContainsStopWord(line) => (ignored /\ item = <<>>)

\* C12 witness: a line of a letter followed by a stop word in mixed case was
\* ignored and gave no item.
C12_Witness ==
    /\ lineDone
    /\ line = <<"a", "T", "a", "x">>
    /\ ignored
    /\ item = <<>>

\* DD/MM/YY or DD/MM/YYYY
IsDayMonthYear(t) ==
    /\ Len(t) \in {8, 10}
    /\ t[3] = "/"
    /\ t[6] = "/"
    /\ \A k \in (1..Len(t)) \ {3, 6} : t[k] \in Digits

\* the six conditions on the trimmed line t, as a plain disjunction
IgnoreConditions(t) ==
    \/ t = <<>>
    \/ Len(t) < 3
    \/ Range(t) \subseteq {"-", "=", "*", "_"}
    \/ IsDayMonthYear(t)
    \/ Range(t) \subseteq Digits
    \/ ContainsStopWord(t)

\* C13. shouldIgnoreLine(line) is true if and only if the trimmed line is
\* empty, or has fewer than 3 characters, or consists of the characters
\* - = * _ only, or is exactly a date DD/MM/YY or DD/MM/YYYY, or consists of
\* digits only, or holds a stop word once lowercased; the conditions form a
\* disjunction, so that the order of the checks does not matter.
C13_IgnoredIffOneConditionHolds ==
    lineDone => (ignored <=> IgnoreConditions(trim(line)))

-----------------------------------------------------------------------------
(* Claims about the normalizers, checked under NormSpec *)

\* C14. sanitizeQuantity is idempotent for every string, strings with more
\* than one comma included, and for a missing input:
\* sanitizeQuantity(sanitizeQuantity(x)) = sanitizeQuantity(x).
C14_SanitizeQuantityIdempotent ==
    quantityOut # <<>> => quantityOut[2] = quantityOut[1]

\* a string: a sequence of characters
IsText(s) == \A k \in 1..Len(s) : s[k] \in STRING /\ Len(s[k]) = 1

\* C15. normalizeUnit is total and idempotent: it returns a string for every
\* string and for a missing or empty input, which gives "pcs", and
\* normalizeUnit(normalizeUnit(x)) = normalizeUnit(x).
C15_NormalizeUnitTotalIdempotent ==
    unitOut # <<>>
        => /\ IsText(unitOut[1])
           /\ unitOut[1] # <<>>
           /\ raw = <<>> => unitOut[1] = <<"p", "c", "s">>
           /\ unitOut[2] = unitOut[1]

\* C15 witness: a plural of a pack synonym was normalized, and its result again.
C15_Witness ==
    /\ raw = <<"b", "a", "g", "s">>
    /\ unitOut = <<raw, raw>>

\* the synonym classes of the units, lowercased
PoundUnits == {<<"l", "b">>, <<"l", "b", "s">>}
PieceUnits == {<<"p", "c">>, <<"p", "c", "s">>, <<"e", "a">>}
PackUnits == {<<"p", "k", "t">>, <<"p", "k", "g">>, <<"p", "a", "c", "k">>, <<"b", "a", "g">>}
StartsWithUnit(t) == Len(t) >= 4 /\ SubSeq(t, 1, 4) = <<"u", "n", "i", "t">>

\* C16. normalizeUnit folds synonyms whatever their letter case: lb and lbs
\* give "lb"; pc, pcs, ea and every token that starts with "unit" give "pcs";
\* pkt, pkg, pack and bag give "pack"; every other non-empty token comes back
\* lowercased and otherwise unchanged.
C16_NormalizeUnitFoldsSynonyms ==
    (unitOut # <<>> /\ raw # <<>>)
        => unitOut[1] =
              CASE toLowerCase(raw) \in PoundUnits -> <<"l", "b">>
                [] toLowerCase(raw) \in PieceUnits \/ StartsWithUnit(toLowerCase(raw))
                      -> <<"p", "c", "s">>
                [] toLowerCase(raw) \in PackUnits -> <<"p", "a", "c", "k">>
                [] OTHER -> toLowerCase(raw)

\* C16 witness: a pound synonym in mixed case was folded.
C16_Witness ==
    /\ raw = <<"L", "B", "s">>
    /\ unitOut # <<>>
    /\ unitOut[1] = <<"l", "b">>

-----------------------------------------------------------------------------
(* Claims about the branches of deriveItemFromLine, checked under LineSpec *)

\* the price-stripped line the patterns are tried on
WorkingOf(l) == normalizeWhitespace(stripTrailingPrice(l))

\* digits, or digits, a separator and digits
IsBareNumber(t) ==
    /\ t # <<>>
    /\ \/ Range(t) \subseteq Digits
       \/ \E p \in 2..(Len(t) - 1) :
             /\ t[p] \in {".", ","}
             /\ \A k \in (1..Len(t)) \ {p} : t[k] \in Digits

\* the length of the bare number w ends in, 0 when it ends in none
TrailingNumberLen(w) ==
    SetMax({0} \cup {n \in 1..Len(w) : IsBareNumber(SubSeq(w, Len(w) - n + 1, Len(w)))})

\* it is what the three branches give, in their order of priority, for the
\* matches qu and mu found in w
BranchPriority(w, qu, mu, it) ==
    /\ qu # <<>>
          => /\ it.quantity = sanitizeQuantity(qu[1].quantity)
             /\ it.unit = normalizeUnit(qu[1].unit)
    /\ (qu = <<>> /\ mu # <<>>)
          => /\ it.quantity = mu[1].quantity
             /\ it.unit = <<"p", "c", "s">>
             /\ it.name = cleanName(trim(RemoveFirst(w, mu[1].text)))
    /\ (qu = <<>> /\ mu = <<>>)
          => /\ it.quantity = <<"1">>
             /\ it.unit = <<"p", "c", "s">>
             /\ it.name = cleanName(trim(SubSeq(w, 1, Len(w) - TrailingNumberLen(w))))

\* it is what the branches give for the matches found in the working line w
PriorityIn(w, it) == BranchPriority(w, QuantityUnitMatch(w), MultiplierMatch(w), it)

\* C17. Extraction priority: when the price-stripped line holds a
\* quantity+unit match, quantity and unit come from it even if a multiplier is
\* there too; otherwise, when it holds a multiplier, the quantity is the
\* multiplier's number and the unit "pcs" even if the line ends in a bare
\* number, which then stays in the name; a bare trailing number is stripped
\* only when neither pattern matches.
C17_ExtractionPriority ==
    (lineDone /\ item # <<>>) => PriorityIn(WorkingOf(line), item[1])

BothMatch(w) == QuantityUnitMatch(w) # <<>> /\ MultiplierMatch(w) # <<>>

\* C17 witness: a line with a quantity in kg and a multiplier gave an item in kg.
C17_Witness ==
    /\ lineDone
    /\ item # <<>>
    /\ item[1].unit = <<"k", "g">>
    /\ BothMatch(WorkingOf(line))

\* it is null when before, the cleaned text in front of the quantity+unit
\* match, is empty, and else an item of that name
NameIsTextBeforeMatch(before, it) ==
    IF before = <<>> THEN it = <<>>
    ELSE it # <<>> /\ it[1].name = before

\* C18. When the quantity+unit pattern matches, the emitted name is exactly
\* the cleaned text before the match position, and deriveItemFromLine returns
\* null when that text cleans to empty, as when the match starts the line.
C18_NameIsTextBeforeQuantity ==
    (lineDone /\ ~ignored /\ QuantityUnitMatch(WorkingOf(line)) # <<>>)
        => NameIsTextBeforeMatch(
               cleanName(trim(SubSeq(WorkingOf(line), 1,
                                     QuantityUnitMatch(WorkingOf(line))[1].index - 1))),
               item)

\* w holds neither pattern and ends in a bare number
BareTrailingNumber(w) ==
    /\ QuantityUnitMatch(w) = <<>>
    /\ MultiplierMatch(w) = <<>>
    /\ TrailingNumberLen(w) > 0

\* when w holds neither pattern and ends in a bare number, it is w without
\* that number, with quantity "1" and unit "pcs"
StrippedWhenBare(w, it) ==
    BareTrailingNumber(w)
        => /\ it.quantity = <<"1">>
           /\ it.unit = <<"p", "c", "s">>
           /\ it.name = cleanName(trim(SubSeq(w, 1, Len(w) - TrailingNumberLen(w))))

\* C19. A line with neither a quantity+unit match nor a multiplier that ends
\* in a bare number loses that number from its name and gives quantity "1"
\* and unit "pcs": the trailing number is never taken as the quantity.
C19_TrailingNumberIsStripped ==
    (lineDone /\ item # <<>>) => StrippedWhenBare(WorkingOf(line), item[1])

\* C19 witness: "Milk 2" gave Milk, quantity 1, pcs.
C19_Witness ==
    /\ lineDone
    /\ line = <<"M", "i", "l", "k", " ", "2">>
    /\ item = <<Item(<<"M", "i", "l", "k">>, <<"1">>, <<"p", "c", "s">>)>>

-----------------------------------------------------------------------------
(* Claims about the items parseReceiptLines returns, checked under Spec *)

\* digits, or digits, a period and digits
IsNumericLiteral(q) ==
    /\ q # <<>>
    /\ \/ Range(q) \subseteq Digits
       \/ \E p \in 2..(Len(q) - 1) :
             /\ q[p] = "."
             /\ \A k \in (1..Len(q)) \ {p} : q[k] \in Digits

\* C20. Every item parseReceiptLines returns, on the heuristic path and on
\* the model-assisted path, has a quantity that is a numeric literal with '.'
\* as decimal separator and no comma, and a non-empty lowercase canonical
\* unit.
C20_QuantityNumericUnitCanonical ==
    Done
        => \A k \in 1..Len(result) :
              /\ IsNumericLiteral(result[k].quantity)
              /\ result[k].unit # <<>>
              /\ result[k].unit = toLowerCase(result[k].unit)
              /\ result[k].unit = normalizeUnit(result[k].unit)

-----------------------------------------------------------------------------
(* Claims about invocations in flight together, checked under PairSpec *)

\* what an invocation alone returns for lines ls when the network answers
\* its request with reply
AloneResult(ls, reply, key) ==
    IF Len(ls) = 0 \/ key = ""
    THEN parseReceiptLinesStart(ls, key).result
    ELSE parseReceiptLinesResume(ls, extractMealsWithModel(ls, reply)).result

\* C21. Independence of invocations: when two invocations of
\* parseReceiptLines are interleaved in any way, each one that has finished
\* has resolved to exactly what it returns alone on its own lines and the
\* answer to its own request; the lines, the answer and the de-duplication
\* sets of the other invocation have no part in it.
C21_InvocationsIndependent ==
    \A i \in Invocations :
        calls[i].pc = "Done" =>
            /\ calls[i].settled = "resolved"
            /\ calls[i].result = AloneResult(calls[i].lines, calls[i].response, OCR_API_KEY)

\* both invocations have finished on different lines, one on the items of
\* the model and the other on the heuristic parser after its request failed
C21_Witness ==
    /\ calls["a"].pc = "Done" /\ calls["b"].pc = "Done"
    /\ calls["a"].lines = <<<<"2", "x", " ", "E", "g", "g", "s">>>>
    /\ Len(calls["b"].lines) = 2
    /\ calls["a"].response.status = "rejected"
    /\ calls["b"].response.body = "array" /\ Len(calls["b"].result) = 1
    /\ Len(calls["a"].result) = 1 /\ calls["a"].result # calls["b"].result

-----------------------------------------------------------------------------
(* Claims about requests and termination, checked under Spec and LiveSpec *)

\* C22. Termination: once parseReceiptLines has been invoked, and given that
\* the network call resolves or rejects in the end, the invocation reaches
\* Done, where its promise has resolved to an item list; Done is never left;
\* and once the heuristic parser has been called no request is issued again.
C22_Terminates ==
    /\ (pc # "Start") ~> (Done /\ settled = "resolved" /\ IsItemList(result))
    /\ [][Done => pc' = "Done" /\ result' = result /\ settled' = settled]_vars
    /\ [][usedHeuristic => pc' = "Done" /\ fetches' = fetches]_vars

\* an invocation has ended on the heuristic parser after its request was
\* answered with an unusable body
C22_Witness ==
    /\ Done /\ usedHeuristic /\ fetches # 0
    /\ response.body = "notJson"
    /\ Len(result) # 0

\* C23. One request: an invocation issues at most one request to the model
\* and never a second one, whatever the first came to: exactly one once it
\* has been called with a credential and non-empty lines, none with empty
\* lines or without credential; and with a request issued the heuristic
\* parser is called only after the request has completed, that is after
\* extractMealsWithModel has returned or thrown.
C23_OneRequest ==
    /\ fetches \in {0, 1}
    /\ pc # "Start" =>
          (fetches # 0 <=> (OCR_API_KEY # "" /\ Len(lines) # 0))
    /\ (usedHeuristic /\ fetches # 0) =>
          /\ extract \in {"returned", "rejected"}
          /\ response.status # "none"
          /\ pc = "Done"
    /\ (fetches # 0 /\ pc # "Done") => ~usedHeuristic

\* the one request failed and the invocation ended on the heuristic parser
\* without a second request
C23_Witness ==
    /\ Done /\ usedHeuristic
    /\ response.status = "rejected"
    /\ fetches # 0 /\ fetches < 2
    /\ Len(result) # 0

-----------------------------------------------------------------------------
(* Claims about units and prices, checked under LineSpec and PriceSpec *)

IsLetter(c) == c \in Range(UpperLetters) \cup Range(LowerLetters)

\* after the number that starts at position i of w (and one optional space)
\* stands a unit abbreviation that is a word of its own: no letter follows it
CompleteUnitFollows(w, i) ==
    \E a \in 1..Len(UnitAlternatives) :
        /\ OccursAtCI(w, UnitStart(w, i), UnitAlternatives[a])
        /\ \/ UnitStart(w, i) + Len(UnitAlternatives[a]) > Len(w)
           \/ ~IsLetter(w[UnitStart(w, i) + Len(UnitAlternatives[a])])

\* the quantity+unit match fired on working text w only where a complete
\* unit follows the number
FiresOnCompleteUnit(w, quantityUnitMatch) ==
    quantityUnitMatch # <<>> => CompleteUnitFollows(w, quantityUnitMatch[1].index)

\* C24. Complete units only: on a line that is not ignored the
\* quantity+unit match fires only when the number is followed by a complete
\* recognized unit abbreviation, and not when it is followed by a longer
\* word that merely begins with the letters of a unit.
C24_UnitIsCompleteWord ==
    (lineDone /\ ~ignored) =>
        FiresOnCompleteUnit(WorkingOf(line), QuantityUnitMatch(WorkingOf(line)))

\* t is digits
AllDigits(t) == t # <<>> /\ Range(t) \subseteq Digits

\* t is N.NN or N,NN: digits, a separator and two digits
IsDecimalAmount(t) ==
    /\ Len(t) >= 4
    /\ t[Len(t) - 2] \in {".", ","}
    /\ AllDigits(SubSeq(t, 1, Len(t) - 3))
    /\ AllDigits(SubSeq(t, Len(t) - 1, Len(t)))

\* t is a currency symbol or an ISO code, in any letter case, and a number
\* (an integer or N.NN / N,NN), with or without space between them
IsCurrencyAmount(t) ==
    \E cur \in CurrencyTokens :
        /\ Len(t) > Len(cur)
        /\ toLowerCase(SubSeq(t, 1, Len(cur))) = toLowerCase(cur)
        /\ \/ AllDigits(trim(Suffix(t, Len(cur) + 1)))
           \/ IsDecimalAmount(trim(Suffix(t, Len(cur) + 1)))

\* l ends with a price token that starts at position k: l holds nothing but
\* the token and space from k on
PriceTokenAt(l, k) ==
    /\ ~IsSpace(l[k])
    /\ \/ IsCurrencyAmount(trim(Suffix(l, k)))
       \/ /\ k = 1 \/ IsSpace(l[k - 1])
          /\ IsDecimalAmount(trim(Suffix(l, k)))

\* the positions where a trailing price token of l starts
PriceTokenStarts(l) == {k \in 1..Len(l) : PriceTokenAt(l, k)}

\* it is what the quantity detection and the naming make of the text of l
\* before position k, as if nothing had followed it
DerivedWithoutPrice(l, k, it) ==
    /\ it = DeriveFromWorking(normalizeWhitespace(trim(Prefix(l, k))))
    /\ trim(Prefix(l, k)) = <<>> => it = <<>>

CanonicalUnits == { <<"k", "g">>, <<"g">>, <<"m", "g">>, <<"l", "b">>, <<"o", "z">>,
                    <<"l">>, <<"m", "l">>, <<"c", "l">>, <<"c", "t">>,
                    <<"p", "c", "s">>, <<"p", "a", "c", "k">> }

\* C27. Every item the heuristic parser derives from a line has a quantity
\* that is digits or digits '.' digits, with no comma, and a unit of the
\* canonical set {kg, g, mg, lb, oz, l, ml, cl, ct, pcs, pack}, whatever
\* the letter case or the synonym written on the line.
C27_HeuristicQuantityAndUnitCanonical ==
    (lineDone /\ item # <<>>) =>
        /\ IsNumericLiteral(item[1].quantity)
        /\ item[1].unit \in CanonicalUnits

\* a line with a decimal comma and a unit synonym in capitals
C27_Witness ==
    /\ lineDone /\ item # <<>>
    /\ line = <<"M", "i", "l", "k", "9", ",", "5", "L", "B", "S">>
    /\ item[1].quantity = <<"9", ".", "5">>
    /\ item[1].unit = <<"l", "b">>

-----------------------------------------------------------------------------
(* Claims about the keys of sanitizeModelItems, checked under ModelSpec and
   KeySpec *)

\* the quantity an entry states: quantity, else qty, else "1"
StatedQuantity(c) == Coalesce(c.quantity, Coalesce(c.qty, <<"1">>))

\* the unit an entry states: unit, else units, else measurement, else none
StatedUnit(c) == Coalesce(c.unit, Coalesce(c.units, Coalesce(c.measurement, <<>>)))

\* q with a period for its decimal comma
DotDecimal(q) == [k \in 1..Len(q) |-> IF q[k] = "," THEN "." ELSE q[k]]

\* u in lower case, with lb for lbs
PoundFolded(u) ==
    IF toLowerCase(u) = <<"l", "b", "s">> THEN <<"l", "b">> ELSE toLowerCase(u)

\* two entries as the model wrote them differ at most in the letter case of
\* the name, in lbs for lb, in a decimal comma for a period, or in a quantity
\* left out for "1"
SpellingsOfOne(a, b) ==
    /\ toLowerCase(a.name) = toLowerCase(b.name)
    /\ DotDecimal(StatedQuantity(a)) = DotDecimal(StatedQuantity(b))
    /\ PoundFolded(StatedUnit(a)) = PoundFolded(StatedUnit(b))

\* cs are the candidates, its what they are normalized to, out the output
CollapseToFirst(cs, its, out) ==
    \A i, j \in Named(cs, its) :
        (i < j /\ SpellingsOfOne(cs[i], cs[j]))
            => /\ Cardinality(PlacesOf(its[j], out)) = 1
               /\ \A k \in PlacesOf(its[j], out) :
                     out[k] = its[FirstLike(its[i], cs, its)]

\* C26. De-duplication after normalization: entries are compared once they
\* are turned into (cleanName(name), sanitizeQuantity(quantity or qty, "1"
\* by default), normalizeUnit(unit or units or measurement)), so that raw
\* entries that differ only in the letter case of the name, in a unit
\* synonym (lbs, lb), in comma or period as decimal separator, or in a
\* missing quantity against "1" give one item, that of the first of them.
C26_DedupAfterNormalization ==
    sanitizeDone => CollapseToFirst(candidates, ItemsFrom(candidates, 1), normalized)

\* two entries that differ in letter case, unit synonym and decimal separator
\* gave the item of the first
C26_Witness ==
    /\ sanitizeDone
    /\ Len(candidates) = 2
    /\ candidates[1] # candidates[2]
    /\ candidates[1].name = <<"M", "i", "l", "k">> /\ candidates[2].name = <<"m", "i", "l", "k">>
    /\ candidates[1].units = <<"L", "B", "S">> /\ candidates[2].unit = <<"l", "b">>
    /\ candidates[1].qty = <<"1", ",", "5">> /\ candidates[2].quantity = <<"1", ".", "5">>
    /\ normalized = << Item(<<"M", "i", "l", "k">>, <<"1", ".", "5">>, <<"l", "b">>) >>

\* cs are the candidates, its what they are normalized to, out the output
KeyTellsTriplesApart(cs, its, out) ==
    /\ \A i \in Named(cs, its) : PlacesOf(its[i], out) # {}
    /\ \A i, j \in Named(cs, its) :
          ItemKey(its[i]) = ItemKey(its[j]) => Triple(its[i]) = Triple(its[j])

\* C28. The key is injective: sanitizeModelItems drops no entry whose
\* normalized triple (lowercased name, quantity, unit) differs from the
\* triple of every entry retained before it, so that every triple of the
\* input is in the output; two entries have one key only if their three
\* fields are equal, also when a name or a quantity holds '|'.
C28_KeyIsInjective ==
    sanitizeDone => KeyTellsTriplesApart(candidates, ItemsFrom(candidates, 1), normalized)

-----------------------------------------------------------------------------
(* Claims about the translation cache, checked under CacheSpec *)

\* C29. No lost cache entry: once translateArray(items, lang) has completed
\* for a language other than 'en', with a key configured and no call of the
\* API having failed, the cache in storage holds a translation for every
\* item that is not blank,
\* however the cache reads, the API calls and the whole-cache writes of the
\* translateText calls were interleaved.
C29_NoLostCacheEntry ==
    (arrayPc = "Done" /\ targetLanguage # "en" /\ API_KEY # <<>> /\ ~apiFailed) =>
        \A k \in 1..Len(arrayItems) :
            trim(arrayItems[k]) # <<>> => arrayItems[k] \in DOMAIN stored

-----------------------------------------------------------------------------
(* Claims about the Add Item screen, checked under ScreenSpec *)

\* C30. Busy flag: isProcessingReceipt is set exactly while
\* handleProcessReceipt is between the start of the recognition and its end,
\* and it is clear again however the handler ended (items found, no text
\* detected, no products found, an error thrown); a press that fails on a
\* precondition (no receipt image, no default location) leaves it clear.
C30_BusyExactlyWhileProcessing ==
    /\ isProcessingReceipt <=> scanPc \in {"AwaitOcr", "AwaitParse"}
    /\ (scanPc = "Idle" /\ exits # {}) => ~isProcessingReceipt

\* the handler has ended in each of its ways, last on an error thrown by the
\* recognition, and the flag is clear
C30_Witness ==
    /\ scanPc = "Idle"
    /\ ~isProcessingReceipt
    /\ toast = "ocrErrorTitle"
    /\ exits = {"noReceipt", "noLocation", "noText", "noProducts", "itemsFound", "error"}

====
